---- MODULE Spec2Model ----
(***************************************************************************)
(* Connection-pool management of the two time-series integrations of       *)
(* commandcenter: PIWebIntegration (sources/pi_web/integration.py) and     *)
(* TraxxIntegration (sources/traxx/integration.py), on top of the host     *)
(* framework's BaseIntegration / BaseConnection.                           *)
(*                                                                         *)
(* One integration is modelled per behaviour; its flavour (kind) and its   *)
(* max_connections are configuration chosen in Init.  Every step is one    *)
(* uninterrupted run of a coroutine between two suspension points of the   *)
(* asyncio event loop.                                                     *)
(***************************************************************************)
EXTENDS Integers, Sequences, FiniteSets, TLC

\* ---------------------------------------------------------------- bounds
NumSubs == 3              \* distinct subscriptions callers can name
MaxSubscriptions == 2     \* max_subscriptions of the modelled integration
MaxConnChoice == 2        \* max_connections is chosen in 1..MaxConnChoice
MaxId == 4                \* connection objects created in one behaviour
MaxCalls == 3             \* subscribe / unsubscribe / close calls in one behaviour
MaxEnds == 1              \* tasks that end on their own in one behaviour
MaxControllers == 3       \* domain controllers of an ActiveDirectoryClient
MaxAuthCalls == 2         \* authenticate calls in one behaviour
MaxRequests == 3          \* PUT /dialout/alert requests in one behaviour
NumKeys == 2              \* idempotency keys in use
MaxAlerts == 2            \* send_alert calls in one behaviour
MaxTargets == 2           \* groups, and destinations, of one message
MaxCommands == 3          \* commands of one send_alert call
MaxWorkersChoice == 2     \* largest max_workers tried
MaxMissedChoice == 2      \* largest max_missed_updates tried
MaxPolls == 5             \* polls of one connection in one behaviour
MaxTs == 3                \* timestamps of the rows of a response
MaxRows == 2              \* rows of one response
MaxTime == 3              \* timestamps of stored dial-out documents and of queries
MaxDocs == 3              \* stored dial-out documents
MaxHosts == 3             \* hosts listed by nltest for the domain
MaxReconnect == 2         \* choices of max_reconnect_attempts: 0..MaxReconnect
MaxOpens == 4             \* calls of create_connection by one connection
MaxConnPool == 2          \* choices of maxconn of the directory client: 1..MaxConnPool
MaxUserCalls == 4         \* calls of get_user by the concurrent requests
MaxBuffered == 2          \* largest max_buffered_messages
MaxFrames == 3            \* frames and poll results received by the connections
MaxItems == 2             \* items of one frame
MeanRttAttempts == 2      \* mean_rtt_attempts given to discover_domain_controllers

Subs == 1..NumSubs
Ids == 1..MaxId
Procs == {"p1", "p2"}     \* concurrent callers of subscribe / unsubscribe
NoProc == "free"
Consolidator == "cons"

VARIABLES
    kind,             \* "piweb" or "traxx"
    max_connections,  \* PIWebIntegration.__init__ max_connections
    concurrent,       \* whether a second caller uses the integration
    closed,           \* session.closed
    lock,             \* holder of self._lock, or NoProc
    event,            \* self._event is set
    registered,       \* keys of self._connections
    callbacks,        \* tasks carrying the connection_lost done-callback
    online,           \* connections whose _online flag is True
    cSubs,            \* connection -> connection.subscriptions
    task,             \* connection -> state of its runner task
    nextId,           \* next unused connection id
    pc,               \* caller -> position in subscribe / unsubscribe
    arg,              \* caller -> the set passed to the call in progress
    ret,              \* caller -> result of its last call
    calls,            \* calls made so far
    named,            \* subscriptions 1..named have been passed to some call
    ends,             \* tasks that have ended on their own so far
    consPc,           \* position of _run_consolidation
    crit,             \* the critical section entered last: its locals, and
                      \* the subscriptions and connections it found
    unsubbed,         \* history: the subscriptions a successful unsubscribe
                      \* removed and no later subscribe has named
    lost              \* history: the subscriptions of the connections of the
                      \* map whose task ended on its own, which no later
                      \* subscribe has named

\* the state of the integrations
intVars == << kind, max_connections, concurrent, closed, lock, event, registered, callbacks,
              online, cSubs, task, nextId, pc, arg, ret, calls, named, ends, consPc, crit, unsubbed, lost >>

lostVars == << lost >>

\* ActiveDirectoryClient and one caller of ActiveDirectoryBackend.authenticate
VARIABLES
    adControllers,    \* ActiveDirectoryClient._controllers, front first
    adBases,          \* ActiveDirectoryClient._bases, front first
    adAnswer,         \* controller -> what get_user does on it during this call
    adToken,          \* the Authorization header of the request
    adPc,             \* position of authenticate
    adTried,          \* the controllers get_user was attempted on, in order
    adRet,            \* result of the last authenticate
    adCalls           \* authenticate calls made so far

authVars == << adControllers, adBases, adAnswer, adToken, adPc, adTried, adRet, adCalls >>

\* the dial-out collection and the PUT /dialout/alert requests
VARIABLES
    docs,        \* idempotency key -> number of documents in the collection
    indexed,     \* the unique index on idempotency_key exists
    clientOk,    \* DIALOUT_SETTINGS.get_client() can build the TelAlertClient
    dKey,        \* request -> its idempotency key (0: not received yet)
    dPc,         \* request -> "none" | "index" | "insert" | "client" | "done"
    dPost,       \* request -> result of post_dialout: "none" | "True" | "False" | "raised"
    dStatus,     \* request -> response: "none" | "OK" | "FAILED" | "error"
    dSched       \* request -> client.send_alert was added to its background tasks

dialVars == << docs, indexed, clientOk, dKey, dPc, dPost, dStatus, dSched >>

\* TelAlertClient and the send_alert calls on it
VARIABLES
    taWorkers,   \* max_workers
    taPermits,   \* value of the semaphore self._lock
    taPc,        \* call -> "idle" | "gather" | "returned" | "raised"
    taGroups,    \* call -> number of groups of its message
    taDests,     \* call -> number of destinations of its message
    taKind,      \* call -> the commands built, in order: "-g" | "-i"
    taSt         \* call -> their states: "queued" | "running" | "ok" | "failed"

telVars == << taWorkers, taPermits, taPc, taGroups, taDests, taKind, taSt >>

\* one TraxxConnection.run
VARIABLES
    txMax,       \* max_missed_updates
    txPc,        \* "poll" | "backoff" | "sleep" | "ended"
    txFailures,  \* backoff.failures
    txLastTs,    \* last_timestamp (0: None)
    txEmitted,   \* the timestamps of the items put on the queue, in order
    txExc,       \* the exception run ended with: "none" | "expired" | "error"
    txLast,      \* outcome of the latest poll: "none" | "ok" | "expired" | "error"
    txStreak,    \* failed polls since the latest successful one
    txPolls      \* polls made

txVars == << txMax, txPc, txFailures, txLastTs, txEmitted, txExc, txLast, txStreak, txPolls >>

\* one call of a function that keeps no state
VARIABLES
    fnIn,        \* the function called and its arguments
    fnDone,      \* the call has been made
    fnOut        \* what the call returned or raised

fnVars == << fnIn, fnDone, fnOut >>


\* one connection started on behalf of subscribe
VARIABLES
    cnKind,      \* "piweb" or "traxx"
    cnBad,       \* the subscriptions given to start make run fail at once
    cnMax,       \* max_reconnect_attempts
    cnStart,     \* position of start: "idle", "waiting", "task", "raised"
    cnStartExc,  \* what start raised
    cnRun,       \* position of run
    cnRaised,    \* how run ended
    cnStarted,   \* the _started event
    cnWaiter,    \* the waiter task of start is done
    cnOpens,     \* calls of create_connection
    cnFailures,  \* backoff.failures
    cnE,         \* ws.exception() at the last close
    cnStreak,    \* failed reconnect attempts since the last close
    cnSub,       \* what subscribe returned
    cnRegistered, \* the connection is in the integration's connection map
    cnWs         \* the websocket ws of run: "none" | "open" | "closed"

cnVars == << cnKind, cnBad, cnMax, cnStart, cnStartExc, cnRun, cnRaised, cnStarted, cnWaiter, cnOpens, cnFailures, cnE, cnStreak, cnSub, cnRegistered, cnWs >>


\* requests that call get_user on one ActiveDirectoryClient at the same time
VARIABLES
    guControllers, \* self._controllers
    guBases,       \* self._bases
    guPermits,     \* value of the semaphore self._lock
    guPc,          \* request -> "idle" | "lock" | "connect" | "search"
    guUrl,         \* request -> url read by _get_connection
    guBase,        \* request -> base read by get_user
    guCalls        \* calls of get_user made

guVars == << guControllers, guBases, guPermits, guPc, guUrl, guBase, guCalls >>


\* two connections of one integration that publish on its data queue
VARIABLES
    pbKind,      \* "piweb" or "traxx"
    pbMax,       \* max_buffered_messages
    pbQueue,     \* the data queue, oldest message first
    pbPc,        \* connection -> "recv" | "item" | "put" | "ended"
    pbItems,     \* connection -> the items of the frame still to publish
    pbRecv,      \* connection -> items received in frames that parsed
    pbTotal,     \* connection -> self._total_published
    pbSeen,      \* connection -> number of the last of its messages taken off the queue
    pbFrames,    \* frames and poll results received
    pbDropAt     \* connection -> _total_published when it last dropped a frame

pbVars == << pbKind, pbMax, pbQueue, pbPc, pbItems, pbRecv, pbTotal, pbSeen, pbFrames, pbDropAt >>


\* authenticate calls of the backend that run at the same time on one client
VARIABLES
    caControllers, \* self._controllers
    caBad,         \* the controllers on which a request raises LDAPError
    caPermits,     \* value of the semaphore self._lock
    caPc,          \* request -> "idle" | "lock" | "connect" | "returned" | "raised"
    caUrl,         \* request -> url read by _get_connection
    caAttempts,    \* request -> iterations of the loop of authenticate done
    caTried        \* request -> the controllers its get_user calls have used

caVars == << caControllers, caBad, caPermits, caPc, caUrl, caAttempts, caTried >>

\* everything but the integrations
sideVars == << authVars, dialVars, telVars, txVars, fnVars, cnVars, guVars, pbVars, caVars >>

\* everything but the directory client
notAuth == << intVars, dialVars, telVars, txVars, fnVars, cnVars, guVars, pbVars, caVars >>

\* everything but the dial-out route
notDial == << intVars, authVars, telVars, txVars, fnVars, cnVars, guVars, pbVars, caVars >>

\* everything but the TelAlert client
notTel == << intVars, authVars, dialVars, txVars, fnVars, cnVars, guVars, pbVars, caVars >>

\* everything but the Traxx connection
notTx == << intVars, authVars, dialVars, telVars, fnVars, cnVars, guVars, pbVars, caVars >>

\* everything but the stateless functions
notFn == << intVars, authVars, dialVars, telVars, txVars, cnVars, guVars, pbVars, caVars >>

\* everything but the single connection
notCn == << intVars, authVars, dialVars, telVars, txVars, fnVars, guVars, pbVars, caVars >>

\* everything but the concurrent get_user calls
notGu == << intVars, authVars, dialVars, telVars, txVars, fnVars, cnVars, pbVars, caVars >>

\* everything but the publishing connections
notPb == << intVars, authVars, dialVars, telVars, txVars, fnVars, cnVars, guVars, caVars >>

\* everything but the concurrent authenticate calls
notCa == << intVars, authVars, dialVars, telVars, txVars, fnVars, cnVars, guVars, pbVars >>

vars == << intVars, sideVars >>

configVars == << kind, max_connections, concurrent >>
callerVars == << pc, arg, ret, calls, named >>
poolVars == << registered, callbacks, online, cSubs, task, nextId, ends >>

\* math.ceil(n / d) for n >= 0, d > 0
Ceil(n, d) == (n + d - 1) \div d

ToSet(s) == { s[i] : i \in 1..Len(s) }

\* every order in which Python may iterate over the set S
Perms(S) ==
    { s \in [1..Cardinality(S) -> S] : \A i, j \in 1..Cardinality(S) : s[i] = s[j] => i = j }

\* the members of a set of ids in increasing order (dict insertion order)
RECURSIVE InOrder(_)
InOrder(S) ==
    IF S = {} THEN << >>
    ELSE LET m == CHOOSE x \in S : \A y \in S : x <= y
         IN << m >> \o InOrder(S \ {m})

\* every list obtained by extending a list with each set of sets[i] in turn
RECURSIVE Extended(_)
Extended(sets) ==
    IF Len(sets) = 0 THEN { << >> }
    ELSE { h \o t : h \in Perms(Head(sets)), t \in Extended(Tail(sets)) }

\* BaseIntegration.subscriptions: the union over the tasks that are not done
Done(c) == task[c] \in { "cancelled", "ended" }

Subscriptions ==
    UNION { cSubs[c] : c \in { r \in registered : ~Done(r) } }

\* a finished task's done-callback is scheduled and has not run yet; the
\* loop runs it in its next iteration, before anything that still has to
\* wait for the network or for a timer
CallbackDue == \E c \in callbacks : Done(c)

\* a faulty capacity, which forgets the subscriptions already held
PICapacityOfEmpty(held) == max_connections * MaxSubscriptions

\* PIWebIntegration.capacity / TraxxIntegration.capacity
PICapacity(held) == max_connections * MaxSubscriptions - Cardinality(held)
TraxxCapacity(held) == MaxSubscriptions - Cardinality(held)
Capacity(held) == IF kind = "piweb" THEN PICapacity(held) ELSE TraxxCapacity(held)

\* a faulty packing, which closes the list only below max_subscriptions
RECURSIVE PIChunksStrict(_)
PIChunksStrict(list) ==
    IF Len(list) < MaxSubscriptions
    THEN << ToSet(list) >>
    ELSE << ToSet(SubSeq(list, 1, MaxSubscriptions)) >>
         \o PIChunksStrict(SubSeq(list, MaxSubscriptions + 1, Len(list)))

\* the while loop of PIWebIntegration._create_connections: the subscription
\* sets of the connections it builds, in order
RECURSIVE PIChunks(_)
PIChunks(list) ==
    IF Len(list) <= MaxSubscriptions
    THEN << ToSet(list) >>
    ELSE << ToSet(SubSeq(list, 1, MaxSubscriptions)) >>
         \o PIChunks(SubSeq(list, MaxSubscriptions + 1, Len(list)))

\* the for loop of TraxxIntegration._create_connections
TraxxChunks(list) == [ i \in 1..Len(list) |-> { list[i] } ]

Chunks(list) == IF kind = "piweb" THEN PIChunks(list) ELSE TraxxChunks(list)


\* ---------------------------------------------------------------- state
NoCrit == [ op |-> "none", who |-> NoProc, arg |-> {}, held |-> {},
            new |-> {}, old |-> {}, out |-> "none" ]

Configured ==
    /\ kind \in { "piweb", "traxx" }
    /\ max_connections \in 1..MaxConnChoice
    /\ kind = "traxx" => max_connections = 1

Started ==
    /\ closed = FALSE
    /\ lock = NoProc
    /\ event = FALSE
    /\ registered = {}
    /\ callbacks = {}
    /\ online = {}
    /\ cSubs = [ c \in Ids |-> {} ]
    /\ task = [ c \in Ids |-> "none" ]
    /\ nextId = 1
    /\ pc = [ p \in Procs |-> "idle" ]
    /\ arg = [ p \in Procs |-> {} ]
    /\ ret = [ p \in Procs |-> "none" ]
    /\ calls = 0
    /\ named = 0
    /\ ends = 0
    /\ consPc = IF kind = "piweb" THEN "wait" ELSE "none"
    /\ crit = NoCrit
    /\ unsubbed = {}
    /\ lost = {}

\* the base (root DSE naming context) of controller c
BaseOf(c) == c + MaxControllers

\* ActiveDirectoryClient.__init__ with n hosts: controllers and bases are
\* parallel deques in the order of the hosts; no request has been made
AuthStarted(ns) ==
    /\ \E n \in ns :
          /\ adControllers = [ i \in 1..n |-> i ]
          /\ adBases = [ i \in 1..n |-> BaseOf(i) ]
          /\ adAnswer = [ i \in 1..n |-> "user" ]
    /\ adToken = "absent"
    /\ adPc = "idle"
    /\ adTried = << >>
    /\ adRet = "none"
    /\ adCalls = 0

AuthIdle == AuthStarted({1})

Reqs == 1..MaxRequests
Keys == 1..NumKeys

\* an empty collection and no request received; cfg tells whether the
\* TelAlert settings give a client (path and host set, telalert.exe exists)
DialStarted(cfg) ==
    /\ docs = [ k \in Keys |-> 0 ]
    /\ indexed = FALSE
    /\ clientOk \in cfg
    /\ dKey = [ r \in Reqs |-> 0 ]
    /\ dPc = [ r \in Reqs |-> "none" ]
    /\ dPost = [ r \in Reqs |-> "none" ]
    /\ dStatus = [ r \in Reqs |-> "none" ]
    /\ dSched = [ r \in Reqs |-> FALSE ]

DialIdle == DialStarted({TRUE})

Alerts == 1..MaxAlerts

\* TelAlertClient.__init__: the semaphore holds max_workers permits
TelStarted(ws) ==
    /\ taWorkers \in ws
    /\ taPermits = taWorkers
    /\ taPc = [ a \in Alerts |-> "idle" ]
    /\ taGroups = [ a \in Alerts |-> 0 ]
    /\ taDests = [ a \in Alerts |-> 0 ]
    /\ taKind = [ a \in Alerts |-> << >> ]
    /\ taSt = [ a \in Alerts |-> << >> ]

TelIdle == TelStarted({1})

\* TraxxConnection.run up to its first request: no update yet, no
\* watermark, a fresh backoff
TxStarted(ms) ==
    /\ txMax \in ms
    /\ txPc = "poll"
    /\ txFailures = 0
    /\ txLastTs = 0
    /\ txEmitted = << >>
    /\ txExc = "none"
    /\ txLast = "none"
    /\ txStreak = 0
    /\ txPolls = 0

TxIdle == TxStarted({1})

\* no function is called
FnIdle == fnIn = [ fn |-> "none" ] /\ fnDone = FALSE /\ fnOut = "pending"


\* a connection object just constructed, start not called yet
CnStarted(kinds, ms) ==
    /\ cnKind \in kinds
    /\ cnBad \in BOOLEAN
    /\ cnMax \in ms
    /\ cnStart = "idle"
    /\ cnStartExc = "none"
    /\ cnRun = "new"
    /\ cnRaised = "running"
    /\ cnStarted = FALSE
    /\ cnWaiter = FALSE
    /\ cnOpens = 0
    /\ cnFailures = 0
    /\ cnE = "none"
    /\ cnStreak = 0
    /\ cnSub = "pending"
    /\ cnRegistered = FALSE
    /\ cnWs = "none"

CnIdle == CnStarted({ "piweb" }, { 0 }) /\ cnBad = FALSE


Requests == { "r1", "r2" }

\* ActiveDirectoryClient.__init__ with n hosts and maxconn connections
GuStarted(ns, ms) ==
    /\ \E n \in ns :
          /\ guControllers = [ i \in 1..n |-> i ]
          /\ guBases = [ i \in 1..n |-> BaseOf(i) ]
    /\ guPermits \in ms
    /\ guPc = [ r \in Requests |-> "idle" ]
    /\ guUrl = [ r \in Requests |-> 0 ]
    /\ guBase = [ r \in Requests |-> 0 ]
    /\ guCalls = 0

GuIdle == GuStarted({ 1 }, { 1 })


Publishers == { "a", "b" }

\* an integration with two connections that are ready, its queue empty
PbStarted(kinds, ms) ==
    /\ pbKind \in kinds
    /\ pbMax \in ms
    /\ pbQueue = << >>
    /\ pbPc = [ c \in Publishers |-> "recv" ]
    /\ pbItems = [ c \in Publishers |-> << >> ]
    /\ pbRecv = [ c \in Publishers |-> 0 ]
    /\ pbTotal = [ c \in Publishers |-> 0 ]
    /\ pbSeen = [ c \in Publishers |-> 0 ]
    /\ pbFrames = 0
    /\ pbDropAt = [ c \in Publishers |-> -1 ]

PbIdle == PbStarted({ "piweb" }, { 1 })


\* a client with n controllers, the controllers of bad out of order, and no
\* authenticate call made yet
CaStarted(ns, ms) ==
    /\ \E n \in ns :
          /\ caControllers = [ i \in 1..n |-> i ]
          /\ caBad \in SUBSET (1..n)
    /\ caPermits \in ms
    /\ caPc = [ r \in Requests |-> "idle" ]
    /\ caUrl = [ r \in Requests |-> 0 ]
    /\ caAttempts = [ r \in Requests |-> 0 ]
    /\ caTried = [ r \in Requests |-> {} ]

CaIdle == CaStarted({ 1 }, { 1 }) /\ caBad = {}

\* the other components stay as constructed while the integrations run
SideIdle == AuthIdle /\ DialIdle /\ TelIdle /\ TxIdle /\ FnIdle /\ CnIdle /\ GuIdle /\ PbIdle /\ CaIdle

\* one caller at a time
Init == Configured /\ concurrent = FALSE /\ Started /\ SideIdle

\* two callers whose calls may overlap
InitConcurrent == Configured /\ concurrent = TRUE /\ Started /\ SideIdle

\* the record of a critical section that starts now
Enter(op, who, S) ==
    [ op |-> op, who |-> who, arg |-> S, held |-> Subscriptions,
      new |-> {}, old |-> {}, out |-> "running" ]

\* Subscriptions are interchangeable and so are callers: a call names new
\* subscriptions in increasing order, and the second caller is used only
\* while the first is inside a call.
InOrderOfUse(S) == \A x \in S : x <= named + Cardinality(S \ (1..named))
NamedWith(S) == named + Cardinality(S \ (1..named))
MayCall(p) ==
    /\ pc[p] = "idle"
    /\ calls < MaxCalls
    /\ p = "p2" => concurrent /\ pc["p1"] # "idle"

\* ------------------------------------------------- building and starting
\* the ids _create_connections gives to the connections of chunks
NewIds(chunks) == nextId..(nextId + Len(chunks) - 1)

\* _create_connections up to its await: one connection per chunk, each with
\* its starter scheduled (PIWebConnection.start / TraxxConnection.start set
\* connection._subscriptions and create the runner task)
CreateConnections(chunks) ==
    /\ nextId + Len(chunks) - 1 <= MaxId
    /\ cSubs' = [ c \in Ids |-> IF c \in NewIds(chunks) THEN chunks[c - nextId + 1] ELSE cSubs[c] ]
    /\ task' = [ c \in Ids |-> IF c \in NewIds(chunks) THEN "pending" ELSE task[c] ]
    /\ nextId' = nextId + Len(chunks)
    /\ UNCHANGED ends

\* asyncio.gather has a result for every starter
Gathered(b) == \A c \in b : task[c] # "pending"

\* a faulty test, which gives a batch up only when every starter failed
AllFailed(b) == \A c \in b : task[c] = "failed"

\* any([isinstance(result, Exception) for result in results])
AnyFailed(b) == \E c \in b : task[c] = "failed"

\* Task.cancel() on every task of cs: a task that is still running is asked
\* to stop, a finished one is left as it is
CancelAll(t, cs) ==
    [ c \in Ids |-> IF c \in cs /\ t[c] = "running" THEN "cancelling" ELSE t[c] ]

\* a faulty clean-up, which also cancels the connections to be replaced
DropBatchAndOld(t, cs) ==
    [ c \in Ids |-> IF c \in cs
                    THEN IF t[c] = "running" THEN "cancelling" ELSE "gone"
                    ELSE IF c \in crit.old /\ t[c] = "running" THEN "cancelling" ELSE t[c] ]

\* the results of a batch that failed are dropped: the exceptions, and the
\* tasks that had already finished; the running ones are cancelled
DropBatch(t, cs) ==
    [ c \in Ids |-> IF c \in cs
                    THEN IF t[c] = "running" THEN "cancelling" ELSE "gone"
                    ELSE t[c] ]

\* BaseConnection.toggle on every connection of cs that is still referenced
Toggle(on, cs) ==
    LET live == { c \in cs : task[c] # "gone" }
    IN  (on \ live) \cup (live \ on)

\* the run loop signals readiness: start returns the runner task
StartOk(c) ==
    /\ task[c] = "pending"
    /\ ~CallbackDue
    /\ task' = [ task EXCEPT ![c] = "running" ]
    /\ UNCHANGED << sideVars, configVars, closed, lock, event, registered, callbacks, online,
                    cSubs, nextId, ends, callerVars, consPc, crit, unsubbed, lostVars >>

\* the run loop ends before signalling readiness: start raises
StartFail(c) ==
    /\ task[c] = "pending"
    /\ ~CallbackDue
    /\ task' = [ task EXCEPT ![c] = "failed" ]
    /\ UNCHANGED << sideVars, configVars, closed, lock, event, registered, callbacks, online,
                    cSubs, nextId, ends, callerVars, consPc, crit, unsubbed, lostVars >>

\* a running task ends on its own (reconnect or missed-update exhaustion,
\* an unhandled error)
TaskEnds(c) ==
    /\ task[c] = "running"
    /\ ends < MaxEnds
    /\ ends' = ends + 1
    /\ task' = [ task EXCEPT ![c] = "ended" ]
    /\ lost' = IF c \in registered THEN lost \cup cSubs[c] ELSE lost
    /\ UNCHANGED << sideVars, configVars, closed, lock, event, registered, callbacks, online,
                    cSubs, nextId, callerVars, consPc, crit, unsubbed >>

\* a cancelled task finishes (for PI-Web after closing its socket)
TaskCancelled(c) ==
    /\ task[c] = "cancelling"
    /\ task' = [ task EXCEPT ![c] = IF c \in callbacks THEN "cancelled" ELSE "gone" ]
    /\ cSubs' = [ cSubs EXCEPT ![c] = IF c \in callbacks THEN @ ELSE {} ]
    /\ UNCHANGED << sideVars, configVars, closed, lock, event, registered, callbacks, online,
                    nextId, ends, callerVars, consPc, crit, unsubbed, lostVars >>

\* BaseIntegration.connection_lost, the done-callback of a registered task
ConnectionLost(c) ==
    /\ c \in callbacks
    /\ Done(c)
    /\ callbacks' = callbacks \ {c}
    /\ registered' = registered \ {c}
    /\ task' = [ task EXCEPT ![c] = "gone" ]
    /\ cSubs' = [ cSubs EXCEPT ![c] = {} ]
    /\ online' = online \ {c}
    /\ UNCHANGED << sideVars, configVars, closed, lock, event, nextId, ends, callerVars, consPc, crit, unsubbed, lostVars >>

\* ------------------------------------------------------------- subscribe
\* subscribe from the moment it holds the lock to its first suspension
\* (the gather of _create_connections) or to its return
SubscribeLocked(p, S) ==
    LET new == S \ Subscriptions
        capacity == Capacity(Subscriptions)
        count == Cardinality(new)
    IN  /\ unsubbed' = unsubbed \ S
        /\ lost' = lost \ S
        /\ IF new # {} /\ capacity >= count
           THEN \E list \in Perms(new) :
                /\ CreateConnections(Chunks(list))
                /\ pc' = [ pc EXCEPT ![p] = "sub_gather" ]
                /\ arg' = [ arg EXCEPT ![p] = S ]
                /\ lock' = p
                /\ crit' = [ Enter("subscribe", p, S) EXCEPT !.new = NewIds(Chunks(list)) ]
                /\ UNCHANGED << ret, registered, callbacks, online, event >>
           ELSE /\ pc' = [ pc EXCEPT ![p] = "idle" ]
                /\ arg' = [ arg EXCEPT ![p] = {} ]
                /\ ret' = [ ret EXCEPT ![p] = IF new # {} THEN "False" ELSE "True" ]
                /\ lock' = NoProc
                /\ crit' = [ Enter("subscribe", p, S) EXCEPT
                                !.out = IF new # {} THEN "False" ELSE "True" ]
                /\ UNCHANGED << poolVars, event >>

\* a faulty closed property, which never reports the session closed
NeverClosed == FALSE

\* PIWebIntegration.closed / TraxxIntegration.closed: the session is closed
SessionClosed == closed

\* a caller calls subscribe(S); it takes the lock at once when it is free
SubscribeCall(p, S) ==
    /\ MayCall(p)
    /\ InOrderOfUse(S)
    /\ calls' = calls + 1
    /\ named' = NamedWith(S)
    /\ IF SessionClosed
       THEN /\ ret' = [ ret EXCEPT ![p] = "IntegrationClosed" ]
            /\ UNCHANGED << pc, arg, lock, crit, unsubbed, lostVars, poolVars, event >>
       ELSE IF lock = NoProc
            THEN SubscribeLocked(p, S)
            ELSE /\ pc' = [ pc EXCEPT ![p] = "sub_lock" ]
                 /\ arg' = [ arg EXCEPT ![p] = S ]
                 /\ UNCHANGED << ret, lock, crit, unsubbed, lostVars, poolVars, event >>
    /\ UNCHANGED << sideVars, configVars, closed, consPc >>

\* a faulty subscribe, which enters its critical section without the lock
SubscribeAcquireUnlocked(p) ==
    /\ pc[p] = "sub_lock"
    /\ SubscribeLocked(p, arg[p])
    /\ UNCHANGED << sideVars, configVars, closed, consPc, calls, named >>

\* a waiting subscribe gets the lock
SubscribeAcquire(p) ==
    /\ pc[p] = "sub_lock"
    /\ lock = NoProc
    /\ SubscribeLocked(p, arg[p])
    /\ UNCHANGED << sideVars, configVars, closed, consPc, calls, named >>

\* subscribe resumes with the results of the gather and runs to its return
SubscribeGathered(p) ==
    /\ pc[p] = "sub_gather"
    /\ Gathered(crit.new)
    /\ pc' = [ pc EXCEPT ![p] = "idle" ]
    /\ arg' = [ arg EXCEPT ![p] = {} ]
    /\ lock' = NoProc
    /\ IF AnyFailed(crit.new)
       THEN /\ task' = DropBatch(task, crit.new)
            /\ cSubs' = [ c \in Ids |-> IF c \in crit.new /\ task[c] # "running"
                                         THEN {} ELSE cSubs[c] ]
            /\ ret' = [ ret EXCEPT ![p] = "False" ]
            /\ crit' = [ crit EXCEPT !.out = "False" ]
            /\ UNCHANGED << registered, callbacks, online, event >>
       ELSE /\ callbacks' = callbacks \cup crit.new
            /\ registered' = registered \cup crit.new
            /\ online' = IF kind = "piweb" THEN Toggle(online, crit.new) ELSE online
            /\ event' = IF kind = "piweb" THEN TRUE ELSE event
            /\ ret' = [ ret EXCEPT ![p] = "True" ]
            /\ crit' = [ crit EXCEPT !.out = "True" ]
            /\ UNCHANGED << task, cSubs >>
    /\ UNCHANGED << sideVars, configVars, closed, nextId, ends, calls, named, consPc, unsubbed, lostVars >>

\* ----------------------------------------------------------- unsubscribe
\* the connections of self._connections that carry a subscription of subs
Carrying(subs) == { c \in registered : cSubs[c] \cap subs # {} }

\* a faulty to_keep, which keeps nothing of the connections it cancels
ToKeepNothing(subs) == { << >> }

\* every value to_keep can have: the kept subscriptions of each carrying
\* connection, connection after connection
ToKeep(subs) ==
    LET cs == InOrder(Carrying(subs))
    IN  Extended([ i \in 1..Len(cs) |-> cSubs[cs[i]] \ subs ])

\* PIWebIntegration.unsubscribe from the lock to its first suspension or return
PIUnsubscribeLocked(p, S) ==
    LET subs == S \ (S \ Subscriptions)
    IN  IF subs = {}
        THEN /\ pc' = [ pc EXCEPT ![p] = "idle" ]
             /\ arg' = [ arg EXCEPT ![p] = {} ]
             /\ ret' = [ ret EXCEPT ![p] = "True" ]
             /\ lock' = NoProc
             /\ crit' = [ Enter("unsubscribe", p, S) EXCEPT !.out = "True" ]
             /\ UNCHANGED << poolVars, event, unsubbed, lostVars >>
        ELSE \E to_keep \in ToKeep(subs) :
             IF to_keep # << >>
             THEN /\ CreateConnections(PIChunks(to_keep))
                  /\ pc' = [ pc EXCEPT ![p] = "unsub_gather" ]
                  /\ arg' = [ arg EXCEPT ![p] = S ]
                  /\ lock' = p
                  /\ crit' = [ Enter("unsubscribe", p, S) EXCEPT
                                  !.new = NewIds(PIChunks(to_keep)),
                                  !.old = Carrying(subs) ]
                  /\ UNCHANGED << ret, registered, callbacks, online, event, unsubbed, lostVars >>
             ELSE /\ online' = Toggle(online, Carrying(subs))
                  /\ task' = CancelAll(task, Carrying(subs))
                  /\ event' = TRUE
                  /\ pc' = [ pc EXCEPT ![p] = "idle" ]
                  /\ arg' = [ arg EXCEPT ![p] = {} ]
                  /\ ret' = [ ret EXCEPT ![p] = "True" ]
                  /\ lock' = NoProc
                  /\ crit' = [ Enter("unsubscribe", p, S) EXCEPT
                                  !.old = Carrying(subs), !.out = "True" ]
                  /\ unsubbed' = unsubbed \cup subs
                  /\ UNCHANGED lostVars
                  /\ UNCHANGED << registered, callbacks, cSubs, nextId, ends >>

\* TraxxIntegration.unsubscribe: no suspension between the lock and the end,
\* and no return statement
TraxxUnsubscribeLocked(p, S) ==
    LET subs == S \ (S \ Subscriptions)
    IN  /\ task' = CancelAll(task, Carrying(subs))
        /\ pc' = [ pc EXCEPT ![p] = "idle" ]
        /\ arg' = [ arg EXCEPT ![p] = {} ]
        /\ ret' = [ ret EXCEPT ![p] = "None" ]
        /\ lock' = NoProc
        /\ crit' = [ Enter("unsubscribe", p, S) EXCEPT
                        !.old = Carrying(subs), !.out = "None" ]
        /\ unsubbed' = unsubbed \cup subs
        /\ UNCHANGED lostVars
        /\ UNCHANGED << registered, callbacks, online, cSubs, nextId, ends, event >>

UnsubscribeLocked(p, S) ==
    IF kind = "piweb" THEN PIUnsubscribeLocked(p, S) ELSE TraxxUnsubscribeLocked(p, S)

\* a caller calls unsubscribe(S)
UnsubscribeCall(p, S) ==
    /\ MayCall(p)
    /\ InOrderOfUse(S)
    /\ calls' = calls + 1
    /\ named' = NamedWith(S)
    /\ IF SessionClosed
       THEN /\ ret' = [ ret EXCEPT ![p] = "IntegrationClosed" ]
            /\ UNCHANGED << pc, arg, lock, crit, unsubbed, lostVars, poolVars, event >>
       ELSE IF lock = NoProc
            THEN UnsubscribeLocked(p, S)
            ELSE /\ pc' = [ pc EXCEPT ![p] = "unsub_lock" ]
                 /\ arg' = [ arg EXCEPT ![p] = S ]
                 /\ UNCHANGED << ret, lock, crit, unsubbed, lostVars, poolVars, event >>
    /\ UNCHANGED << sideVars, configVars, closed, consPc >>

\* a waiting unsubscribe gets the lock
UnsubscribeAcquire(p) ==
    /\ pc[p] = "unsub_lock"
    /\ lock = NoProc
    /\ UnsubscribeLocked(p, arg[p])
    /\ UNCHANGED << sideVars, configVars, closed, consPc, calls, named >>

\* PIWebIntegration.unsubscribe resumes with the results of the gather
UnsubscribeGathered(p) ==
    /\ pc[p] = "unsub_gather"
    /\ Gathered(crit.new)
    /\ pc' = [ pc EXCEPT ![p] = "idle" ]
    /\ arg' = [ arg EXCEPT ![p] = {} ]
    /\ lock' = NoProc
    /\ IF AnyFailed(crit.new)
       THEN /\ task' = DropBatch(task, crit.new)
            /\ cSubs' = [ c \in Ids |-> IF c \in crit.new /\ task[c] # "running"
                                         THEN {} ELSE cSubs[c] ]
            /\ ret' = [ ret EXCEPT ![p] = "False" ]
            /\ crit' = [ crit EXCEPT !.out = "False" ]
            /\ UNCHANGED << registered, callbacks, online, event, unsubbed, lostVars >>
       ELSE /\ callbacks' = callbacks \cup crit.new
            /\ registered' = registered \cup crit.new
            /\ online' = Toggle(Toggle(online, crit.new), crit.old)
            /\ task' = CancelAll(task, crit.old)
            /\ event' = TRUE
            /\ ret' = [ ret EXCEPT ![p] = "True" ]
            /\ crit' = [ crit EXCEPT !.out = "True" ]
            /\ unsubbed' = unsubbed \cup (crit.arg \cap crit.held)
            /\ UNCHANGED lostVars
            /\ UNCHANGED cSubs
    /\ UNCHANGED << sideVars, configVars, closed, nextId, ends, calls, named, consPc >>

\* --------------------------------------------------------- consolidation
\* has_capacity: the connections of self._connections below max_subscriptions
HasCapacity == { c \in registered : Cardinality(cSubs[c]) < MaxSubscriptions }

\* sum([len(connection.subscriptions) for connection in has_capacity.values()])
RECURSIVE SumLen(_)
SumLen(cs) ==
    IF cs = {} THEN 0
    ELSE LET c == CHOOSE x \in cs : TRUE
         IN Cardinality(cSubs[c]) + SumLen(cs \ {c})

\* a faulty optimal count, rounded down
OptimalFloor(cs) == SumLen(cs) \div MaxSubscriptions

\* optimal = math.ceil(capacity / self._max_subscriptions)
Optimal(cs) == Ceil(SumLen(cs), MaxSubscriptions)

\* a faulty list, which takes the subscriptions of one connection only
SpareOfOne(cs) == Perms(cSubs[CHOOSE c \in cs : TRUE])

\* every value the list subscriptions of the pass can have
Spare(cs) ==
    LET order == InOrder(cs)
    IN  Extended([ i \in 1..Len(order) |-> cSubs[order[i]] ])

\* await self._event.wait(); self._event.clear(); then the sleep begins
ConsolidationWake ==
    /\ consPc = "wait"
    /\ event
    /\ event' = FALSE
    /\ consPc' = "sleep"
    /\ UNCHANGED << sideVars, configVars, closed, lock, poolVars, callerVars, crit, unsubbed, lostVars >>

\* the sleep is over and the lock is free: the scan, up to the gather of
\* _create_connections or to the continue
ConsolidationScan ==
    /\ consPc = "sleep"
    /\ lock = NoProc
    /\ ~CallbackDue
    /\ IF Optimal(HasCapacity) = Cardinality(HasCapacity)
       THEN /\ consPc' = "wait"
            /\ crit' = [ Enter("consolidate", Consolidator, {}) EXCEPT
                            !.old = HasCapacity, !.out = "idle" ]
            /\ UNCHANGED << lock, poolVars >>
       ELSE \E subscriptions \in Spare(HasCapacity) :
            /\ CreateConnections(PIChunks(subscriptions))
            /\ consPc' = "gather"
            /\ lock' = Consolidator
            /\ crit' = [ Enter("consolidate", Consolidator, {}) EXCEPT
                            !.new = NewIds(PIChunks(subscriptions)),
                            !.old = HasCapacity ]
            /\ UNCHANGED << registered, callbacks, online >>
    /\ UNCHANGED << sideVars, configVars, closed, event, callerVars, unsubbed, lostVars >>

\* the pass resumes with the results of the gather and runs to the next wait
ConsolidationGathered ==
    /\ consPc = "gather"
    /\ Gathered(crit.new)
    /\ consPc' = "wait"
    /\ lock' = NoProc
    /\ IF AnyFailed(crit.new)
       THEN /\ task' = DropBatch(task, crit.new)
            /\ cSubs' = [ c \in Ids |-> IF c \in crit.new /\ task[c] # "running"
                                         THEN {} ELSE cSubs[c] ]
            /\ crit' = [ crit EXCEPT !.out = "False" ]
            /\ UNCHANGED << registered, callbacks, online >>
       ELSE /\ callbacks' = callbacks \cup crit.new
            /\ registered' = registered \cup crit.new
            /\ online' = Toggle(Toggle(online, crit.new), crit.old)
            /\ task' = CancelAll(task, crit.old)
            /\ crit' = [ crit EXCEPT !.out = "True" ]
            /\ UNCHANGED cSubs
    /\ UNCHANGED << sideVars, configVars, closed, event, nextId, ends, callerVars, unsubbed, lostVars >>

\* ----------------------------------------------------------------- close
\* close(): the consolidation task and every registered task are cancelled
\* and the session is closed.  A pass cancelled inside its gather has its
\* unfinished starters cancelled with it and gives the lock back; the
\* connections it had started are registered nowhere.
Close ==
    /\ ~closed
    /\ calls < MaxCalls
    /\ calls' = calls + 1
    /\ closed' = TRUE
    /\ consPc' = IF kind = "piweb" THEN "cancelled" ELSE consPc
    /\ lock' = IF lock = Consolidator THEN NoProc ELSE lock
    /\ crit' = IF lock = Consolidator THEN [ crit EXCEPT !.out = "cancelled" ] ELSE crit
    /\ task' = [ c \in Ids |->
                    IF c \in registered /\ task[c] = "running" THEN "cancelling"
                    ELSE IF lock = Consolidator /\ c \in crit.new /\ task[c] = "pending"
                         THEN "gone"
                         ELSE task[c] ]
    /\ cSubs' = [ c \in Ids |->
                    IF lock = Consolidator /\ c \in crit.new /\ task[c] = "pending"
                    THEN {} ELSE cSubs[c] ]
    /\ UNCHANGED << sideVars, configVars, event, registered, callbacks, online, nextId, ends,
                    pc, arg, ret, named, unsubbed, lostVars >>

\* ------------------------------------------------------------------ next
Next ==
    \/ \E p \in Procs, S \in SUBSET Subs : SubscribeCall(p, S)
    \/ \E p \in Procs : SubscribeAcquire(p)
    \/ \E p \in Procs : SubscribeGathered(p)
    \/ \E p \in Procs, S \in SUBSET Subs : UnsubscribeCall(p, S)
    \/ \E p \in Procs : UnsubscribeAcquire(p)
    \/ \E p \in Procs : UnsubscribeGathered(p)
    \/ ConsolidationWake
    \/ ConsolidationScan
    \/ ConsolidationGathered
    \/ \E c \in Ids : StartOk(c)
    \/ \E c \in Ids : StartFail(c)
    \/ \E c \in Ids : TaskEnds(c)
    \/ \E c \in Ids : TaskCancelled(c)
    \/ \E c \in Ids : ConnectionLost(c)
    \/ Close

Spec == Init /\ [][Next]_vars

SpecConcurrent == InitConcurrent /\ [][Next]_vars


\* ================================================================ claims
\* the step in which the call op of caller p takes the lock: the call itself
\* when the lock is free, else the end of its wait (crit' is its record)
Enters(p, op) ==
    /\ lock = NoProc
    /\ ~closed /\ ~closed'
    /\ crit'.op = op /\ crit'.who = p
    /\ \/ pc[p] = "idle" /\ calls' = calls + 1
       \/ op = "subscribe" /\ pc[p] = "sub_lock" /\ pc'[p] # "sub_lock"
       \/ op = "unsubscribe" /\ pc[p] = "unsub_lock" /\ pc'[p] # "unsub_lock"

\* the step in which the call op of caller p resumes after its gather
Resumes(p, op) ==
    /\ pc'[p] = "idle"
    /\ \/ op = "subscribe" /\ pc[p] = "sub_gather"
       \/ op = "unsubscribe" /\ pc[p] = "unsub_gather"

\* the steps of a consolidation pass: the scan and the resumption
Scans == consPc = "sleep" /\ consPc' \in { "wait", "gather" }
ConsolidationResumes == consPc = "gather" /\ consPc' = "wait"

\* the connection map, its tasks and the subscription set are as they were
PoolUntouched ==
    /\ registered' = registered
    /\ callbacks' = callbacks
    /\ \A c \in registered : task'[c] = task[c] /\ cSubs'[c] = cSubs[c]
    /\ Subscriptions' = Subscriptions

\* a connection that is in the map and whose task has not been cancelled
Kept(c) == c \in registered /\ task[c] \notin { "cancelling", "cancelled", "gone" }
Carried(s) == \E c \in Ids : Kept(c) /\ s \in cSubs[c]

\* C1: a subscribe whose new subscriptions exceed the remaining capacity
\* (PI-Web: max_connections * max_subscriptions minus the held ones, Traxx:
\* max_subscriptions minus the held ones) returns False in the step that
\* takes the lock, creates and starts no connection, and leaves the
\* subscription set and the connection map as they were.
C1_CapacityRejection ==
    [][ \A p \in Procs :
          ( /\ Enters(p, "subscribe")
            /\ Cardinality(crit'.arg \ Subscriptions) >
                 ( IF kind = "piweb" THEN max_connections * MaxSubscriptions
                                     ELSE MaxSubscriptions )
                 - Cardinality(Subscriptions) )
          => /\ ret'[p] = "False"
             /\ pc'[p] = "idle"
             /\ nextId' = nextId
             /\ task' = task
             /\ cSubs' = cSubs
             /\ PoolUntouched ]_vars

\* C1 witness: a PI-Web subscribe was rejected for capacity while the
\* integration held subscriptions on a running connection.
C1_Witness ==
    /\ kind = "piweb"
    /\ crit.op = "subscribe"
    /\ crit.out = "False"
    /\ crit.new = {}
    /\ crit.held # {}
    /\ Cardinality(crit.arg \ crit.held) >
         max_connections * MaxSubscriptions - Cardinality(crit.held)
    /\ \E c \in registered : task[c] = "running"

\* C2: when a connection of the batch of a subscribe failed to start, the
\* step that resumes subscribe returns False, registers no connection of
\* the batch, leaves no connection of the batch running, and leaves the
\* subscription set and the connection map as they were.
C2_AllOrNothing ==
    [][ \A p \in Procs :
          ( Resumes(p, "subscribe") /\ \E c \in crit.new : task[c] = "failed" )
          => /\ ret'[p] = "False"
             /\ crit.new \cap registered' = {}
             /\ \A c \in crit.new : task'[c] \in { "cancelling", "gone" }
             /\ \A c \in crit.new : task[c] = "running" => task'[c] = "cancelling"
             /\ PoolUntouched ]_vars

\* C2 witness: a subscribe returned False after one connection of its batch
\* had started (and was cancelled) and another had failed.
C2_Witness ==
    /\ crit.op = "subscribe"
    /\ crit.out = "False"
    /\ \E c \in crit.new : task[c] = "cancelling"
    /\ \E c \in crit.new : task[c] = "gone"

\* the largest id of a non-empty set of ids (the last connection built)
Last(cs) == CHOOSE x \in cs : \A y \in cs : y <= x

\* C3: while a PI-Web subscribe starts the connections for its n >= 1 new
\* subscriptions there are exactly ceil(n / max_subscriptions) of them, all
\* but the last hold exactly max_subscriptions subscriptions, the last
\* holds at least one and at most max_subscriptions, and every new
\* subscription is in exactly one of them.
C3_Packing ==
    ( kind = "piweb" /\ crit.op = "subscribe" /\ crit.out = "running" )
    => LET new == crit.arg \ crit.held
           n == Cardinality(new)
       IN  /\ n >= 1
           /\ Cardinality(crit.new) = (n + MaxSubscriptions - 1) \div MaxSubscriptions
           /\ \A c \in crit.new \ { Last(crit.new) } :
                 Cardinality(cSubs[c]) = MaxSubscriptions
           /\ Cardinality(cSubs[Last(crit.new)]) \in 1..MaxSubscriptions
           /\ \A x \in new : Cardinality({ c \in crit.new : x \in cSubs[c] }) = 1
           /\ \A c \in crit.new : cSubs[c] \subseteq new

\* C3 witness: a PI-Web subscribe packs more new subscriptions than one
\* connection holds into a full connection and a last, smaller one.
C3_Witness ==
    /\ kind = "piweb"
    /\ crit.op = "subscribe"
    /\ crit.out = "running"
    /\ Cardinality(crit.arg \ crit.held) > MaxSubscriptions
    /\ Cardinality(crit.new) >= 2
    /\ Cardinality(cSubs[Last(crit.new)]) < MaxSubscriptions

\* C4: a step of PIWebIntegration.unsubscribe cancels a running connection
\* of the map only when every replacement connection has started and is in
\* the map after the step, and no step of the operation takes from a
\* subscription outside the target set its last registered, non-cancelled
\* connection.
C4_ReplaceBeforeCancel ==
    [][ \A p \in Procs :
          ( kind = "piweb" /\ ( Enters(p, "unsubscribe") \/ Resumes(p, "unsubscribe") ) )
          => /\ ( \E c \in registered : task[c] = "running" /\ task'[c] = "cancelling" )
                => \A n \in crit'.new :
                      n \in registered' /\ task'[n] \in { "running", "ended" }
             /\ \A s \in Subs \ crit'.arg : Carried(s) => Carried(s)' ]_vars

\* C4 witness: an unsubscribe has registered a running replacement that
\* carries a kept subscription and has cancelled the old connection.
C4_Witness ==
    /\ kind = "piweb"
    /\ crit.op = "unsubscribe"
    /\ crit.out = "True"
    /\ \E n \in crit.new : n \in registered /\ task[n] = "running" /\ cSubs[n] # {}
    /\ \E c \in crit.old : c \in registered /\ task[c] = "cancelling"

\* C5: when a replacement connection failed to start, the step that resumes
\* PIWebIntegration.unsubscribe returns False, cancels no connection of the
\* map and leaves the connection map and the subscription set as they
\* were; the step that started the replacements left them untouched too.
C5_FailSafe ==
    [][ \A p \in Procs :
          /\ ( Resumes(p, "unsubscribe") /\ \E c \in crit.new : task[c] = "failed" )
             => /\ ret'[p] = "False"
                /\ crit.new \cap registered' = {}
                /\ PoolUntouched
          /\ ( pc[p] # "unsub_gather" /\ pc'[p] = "unsub_gather" )
             => PoolUntouched ]_vars

\* C5 witness: an unsubscribe returned False and the connections it meant
\* to replace are still running in the map.
C5_Witness ==
    /\ kind = "piweb"
    /\ crit.op = "unsubscribe"
    /\ crit.out = "False"
    /\ crit.old # {}
    /\ \A c \in crit.old : c \in registered /\ task[c] = "running"

\* C6: every held member of S is gone after a PIWebIntegration.unsubscribe(S)
\* that returned True: a subscription that such a call removed, and that no
\* later subscribe has named, is carried by no running connection of the
\* map.
C6_HeldMembersGone ==
    kind = "piweb"
    => \A s \in unsubbed :
          ~ \E c \in registered : task[c] = "running" /\ s \in cSubs[c]

Under == { c \in registered : Cardinality(cSubs[c]) < MaxSubscriptions }

\* C8: a scan that finds as many under-capacity connections as
\* ceil(their subscriptions / max_subscriptions) creates and starts no
\* connection, cancels none, keeps no lock and leaves the connection map as
\* it was.
C8_IdlePass ==
    [][ ( /\ Scans
          /\ Cardinality(Under) =
               (SumLen(Under) + MaxSubscriptions - 1) \div MaxSubscriptions )
        => /\ nextId' = nextId
           /\ task' = task
           /\ cSubs' = cSubs
           /\ online' = online
           /\ lock' = NoProc
           /\ PoolUntouched ]_vars

\* C8 witness: a pass found its under-capacity connections optimal and
\* did nothing, with a connection in the map.
C8_Witness ==
    /\ crit.op = "consolidate"
    /\ crit.out = "idle"
    /\ crit.old # {}
    /\ \A c \in crit.old : c \in registered /\ task[c] = "running"

Inside ==
    { p \in Procs : pc[p] \in { "sub_gather", "unsub_gather" } }
    \cup ( IF consPc = "gather" THEN { Consolidator } ELSE {} )

\* C10 as stated: the connection map changes only in a step of the holder
\* of the lock.
C10_OnlyUnderLock ==
    [][ registered' # registered => ( lock # NoProc /\ lock' = NoProc ) ]_vars

\* C10 amended: subscribe, unsubscribe and the pass are never inside their
\* critical sections together, the one inside holds the lock, and they add
\* connections to the map only in a step of the holder of the lock; every
\* other change of the map is connection_lost removing a finished task,
\* which takes no lock.
C10_MutualExclusion ==
    [][ /\ Cardinality(Inside') <= 1
        /\ \A x \in Inside' : lock' = x
        /\ registered' # registered
           => \/ lock \in Inside /\ lock' = NoProc /\ registered' = registered \cup crit.new
              \/ \E c \in callbacks : Done(c) /\ registered' = registered \ {c}
        ]_vars

\* C10 witness: a caller is inside its critical section while the other
\* caller waits for the lock and a connection is in the map.
C10_Witness ==
    /\ pc["p1"] \in { "sub_gather", "unsub_gather" }
    /\ lock = "p1"
    /\ pc["p2"] \in { "sub_lock", "unsub_lock" }
    /\ registered # {}

\* C11: a call of subscribe or unsubscribe on an integration whose session
\* is closed raises IntegrationClosed in the step of the call, takes no
\* lock, creates no connection and leaves the connection map, its tasks and
\* the subscription set as they were.
C11_ClosedRaises ==
    [][ ( closed /\ calls' = calls + 1 )
        => /\ \E p \in Procs :
                /\ pc[p] = "idle"
                /\ ret' = [ ret EXCEPT ![p] = "IntegrationClosed" ]
           /\ pc' = pc
           /\ lock' = lock
           /\ nextId' = nextId
           /\ task' = task
           /\ cSubs' = cSubs
           /\ PoolUntouched ]_vars

\* C11 witness: a call on a closed integration raised IntegrationClosed
\* while connections were still in the map.
C11_Witness ==
    /\ closed
    /\ \E p \in Procs : ret[p] = "IntegrationClosed"
    /\ registered # {}

\* ============================================ directory authentication
\* an integration that is constructed and never used
IntegrationIdle ==
    /\ kind = "traxx"
    /\ max_connections = 1
    /\ concurrent = FALSE
    /\ Started

\* collections.deque.rotate(1): the last element comes to the front and
\* every other element moves one position toward the back
Rotate(q) ==
    IF Len(q) = 0 THEN q ELSE << q[Len(q)] >> \o SubSeq(q, 1, Len(q) - 1)

\* a faulty loop bound, one attempt short
OneAttemptShort == Len(adControllers) - 1

\* range(len(self.client)): the attempts one authenticate call may make
MaxAttempts == Len(adControllers)

\* get_user is called: _get_connection reads self._controllers[0]
AuthAttempt(tried) == Append(tried, adControllers[1])

\* authenticate up to its first await, or to its return without a lookup:
\* no Authorization header, a scheme other than bearer, or a token the
\* handler rejects give None
Authenticate ==
    /\ adPc = "idle"
    /\ adCalls < MaxAuthCalls
    /\ adCalls' = adCalls + 1
    /\ adToken' \in { "absent", "basic", "invalid", "valid" }
    /\ adAnswer' \in [ 1..Len(adControllers) -> { "user", "ldap", "other" } ]
    /\ IF adToken' = "valid" /\ MaxAttempts > 0
       THEN /\ adPc' = "get_user"
            /\ adTried' = AuthAttempt(<< >>)
            /\ adRet' = "none"
       ELSE /\ adPc' = "idle"
            /\ adTried' = << >>
            /\ adRet' = IF adToken' = "valid" THEN "unable" ELSE "None"
    /\ UNCHANGED << adControllers, adBases, notAuth >>

\* a faulty handler, which takes every exception for an LDAPError
EveryErrorIsLDAP(answer) == answer # "user"

\* except LDAPError: the clause that rotates the client
IsLDAPError(answer) == answer = "ldap"

\* get_user returns the user: authenticate returns the credentials
AuthUser ==
    /\ adPc = "get_user"
    /\ adAnswer[adTried[Len(adTried)]] = "user"
    /\ adPc' = "idle"
    /\ adRet' = "user"
    /\ UNCHANGED << adControllers, adBases, adAnswer, adToken, adTried, adCalls, notAuth >>

\* get_user raises something that is no LDAPError (UserNotFound, ...)
AuthUnhandled ==
    /\ adPc = "get_user"
    /\ adAnswer[adTried[Len(adTried)]] # "user"
    /\ ~ IsLDAPError(adAnswer[adTried[Len(adTried)]])
    /\ adPc' = "idle"
    /\ adRet' = "unhandled"
    /\ UNCHANGED << adControllers, adBases, adAnswer, adToken, adTried, adCalls, notAuth >>

\* get_user raises LDAPError: rotate, then the next iteration of the loop
\* or, when the range is used up, its else branch
AuthRotate ==
    /\ adPc = "get_user"
    /\ IsLDAPError(adAnswer[adTried[Len(adTried)]])
    /\ adControllers' = Rotate(adControllers)
    /\ adBases' = Rotate(adBases)
    /\ IF Len(adTried) < MaxAttempts
       THEN /\ adPc' = "get_user"
            /\ adTried' = Append(adTried, adControllers'[1])
            /\ adRet' = adRet
       ELSE /\ adPc' = "idle"
            /\ adTried' = adTried
            /\ adRet' = "unable"
    /\ UNCHANGED << adAnswer, adToken, adCalls, notAuth >>

InitAuth == IntegrationIdle /\ AuthStarted(1..MaxControllers) /\ DialIdle /\ TelIdle /\ TxIdle /\ FnIdle /\ CnIdle /\ GuIdle /\ PbIdle /\ CaIdle

NextAuth ==
    \/ Authenticate
    \/ AuthUser
    \/ AuthUnhandled
    \/ AuthRotate

SpecAuth == InitAuth /\ [][NextAuth]_vars

\* the controller the pending get_user was sent to
Trying == adTried[Len(adTried)]

\* the pending get_user raises LDAPError in this step
Rotates == adPc = "get_user" /\ adAnswer[Trying] = "ldap"

\* C12: in one authenticate call with a valid bearer token, a get_user that
\* raises an LDAP error is followed by a rotate and, while attempts remain,
\* by a get_user on the new primary, a controller not tried before; the
\* 'unable to communicate' error is raised only when each of the n
\* controllers has been tried exactly once; and when the controllers either
\* answer or raise LDAP errors and one of them answers, the call returns the
\* user.
C12_Failover ==
    [][ LET n == Len(adControllers) IN
        /\ Rotates
           => /\ ToSet(adControllers') = ToSet(adControllers)
              /\ n > 1 => adControllers'[1] # adControllers[1]
              /\ Len(adTried) < n
                 => /\ adPc' = "get_user"
                    /\ adTried' = Append(adTried, adControllers'[1])
                    /\ adControllers'[1] \notin ToSet(adTried)
        /\ adRet' = "unable"
           => /\ adToken' = "valid"
              /\ Len(adTried') = n
              /\ ToSet(adTried') = ToSet(adControllers')
        /\ ( /\ adPc = "get_user"
             /\ adPc' = "idle"
             /\ \A c \in 1..n : adAnswer[c] # "other"
             /\ \E c \in 1..n : adAnswer[c] = "user" )
           => adRet' = "user" ]_vars

\* two controllers raised LDAP errors and the third answered
C12_Witness ==
    /\ adRet = "user"
    /\ Len(adTried) = MaxControllers
    /\ adToken = "valid"

\* C31: in authenticate an error of get_user that is no LDAP error (the
\* UserNotFound of an empty result among them) makes the call raise the
\* 'unhandled error' AuthenticationError at once, without a rotate and
\* without another get_user; and a request without Authorization header,
\* with another scheme than bearer or with a token the handler rejects
\* returns None without any get_user.
C31_UnhandledIsFatal ==
    [][ /\ ( adPc = "get_user" /\ adAnswer[Trying] = "other" )
           => /\ adRet' = "unhandled"
              /\ adPc' = "idle"
              /\ UNCHANGED << adControllers, adBases, adTried >>
        /\ ( adCalls' # adCalls /\ adToken' # "valid" )
           => /\ adRet' = "None"
              /\ adPc' = "idle"
              /\ adTried' = << >>
              /\ UNCHANGED << adControllers, adBases >> ]_vars

\* the primary raised an error that is no LDAP error while other
\* controllers were left untried
C31_Witness ==
    /\ adRet = "unhandled"
    /\ Len(adTried) = 1
    /\ Len(adControllers) > 1

\* C13 as stated: rotate moves the primary (index 0) to the back and every
\* other controller one position toward the front, the bases alike.
C13_PrimaryToBack ==
    [][ Rotates
        => /\ adControllers' = Tail(adControllers) \o << Head(adControllers) >>
           /\ adBases' = Tail(adBases) \o << Head(adBases) >> ]_vars

\* what deque.rotate(1) does instead: the last controller comes to the front
\* (it becomes the primary) and every other controller moves one position
\* toward the back, so the former primary becomes second; the bases move
\* alike and stay parallel to the controllers.
C13_LastToFront ==
    [][ Rotates
        => LET n == Len(adControllers) IN
           /\ Len(adControllers') = n
           /\ Len(adBases') = n
           /\ adControllers'[1] = adControllers[n]
           /\ adBases'[1] = adBases[n]
           /\ \A i \in 1..(n - 1) :
                 /\ adControllers'[i + 1] = adControllers[i]
                 /\ adBases'[i + 1] = adBases[i]
           /\ \A i \in 1..n : adBases'[i] = BaseOf(adControllers'[i]) ]_vars

\* ============================================================ dial-out
\* a collection whose index does not reject duplicates
NotUnique == FALSE

\* create_index([("idempotency_key", ASCENDING)], unique=True): once the
\* index exists, the storage rejects a second document with the same key
Unique == indexed

\* PUT /dialout/alert with idempotency key k is received; its dependencies
\* are solved in the order of the parameters of alert
DialReceive(r, k) ==
    /\ dPc[r] = "none"
    /\ dKey' = [ dKey EXCEPT ![r] = k ]
    /\ dPc' = [ dPc EXCEPT ![r] = "index" ]
    /\ UNCHANGED << docs, indexed, clientOk, dPost, dStatus, dSched, notDial >>

\* get_dialout_collection: the index is created (or found)
GetDialoutCollection(r) ==
    /\ dPc[r] = "index"
    /\ indexed' = TRUE
    /\ dPc' = [ dPc EXCEPT ![r] = "insert" ]
    /\ UNCHANGED << docs, clientOk, dKey, dPost, dStatus, dSched, notDial >>

\* post_dialout: insert_one is one operation of the storage; it stores the
\* document, or raises DuplicateKeyError and post_dialout returns False
PostDialout(r) ==
    /\ dPc[r] = "insert"
    /\ IF Unique /\ docs[dKey[r]] > 0
       THEN /\ dPost' = [ dPost EXCEPT ![r] = "False" ]
            /\ docs' = docs
       ELSE /\ dPost' = [ dPost EXCEPT ![r] = "True" ]
            /\ docs' = [ docs EXCEPT ![dKey[r]] = @ + 1 ]
    /\ dPc' = [ dPc EXCEPT ![r] = "client" ]
    /\ UNCHANGED << indexed, clientOk, dKey, dStatus, dSched, notDial >>

\* the storage cannot be reached: create_index or insert_one raises
\* something else than DuplicateKeyError, and the request fails
DialStorageFails(r) ==
    /\ dPc[r] \in { "index", "insert" }
    /\ dPost' = [ dPost EXCEPT ![r] = IF dPc[r] = "insert" THEN "raised" ELSE @ ]
    /\ dStatus' = [ dStatus EXCEPT ![r] = "error" ]
    /\ dPc' = [ dPc EXCEPT ![r] = "done" ]
    /\ UNCHANGED << docs, indexed, clientOk, dKey, dSched, notDial >>

\* get_telalert_client, then the body of alert: without a client the request
\* fails (NotConfiguredError, or HTTPException 500 on FileNotFoundError);
\* with one, FAILED if post is False, else send_alert is added to the
\* background tasks and the status is OK
Alert(r) ==
    /\ dPc[r] = "client"
    /\ IF ~ clientOk
       THEN /\ dStatus' = [ dStatus EXCEPT ![r] = "error" ]
            /\ dSched' = dSched
       ELSE IF dPost[r] = "False"
       THEN /\ dStatus' = [ dStatus EXCEPT ![r] = "FAILED" ]
            /\ dSched' = dSched
       ELSE /\ dStatus' = [ dStatus EXCEPT ![r] = "OK" ]
            /\ dSched' = [ dSched EXCEPT ![r] = TRUE ]
    /\ dPc' = [ dPc EXCEPT ![r] = "done" ]
    /\ UNCHANGED << docs, indexed, clientOk, dKey, dPost, notDial >>

InitDial == IntegrationIdle /\ AuthIdle /\ DialStarted(BOOLEAN) /\ TelIdle /\ TxIdle /\ FnIdle /\ CnIdle /\ GuIdle /\ PbIdle /\ CaIdle

NextDial ==
    \/ \E r \in Reqs, k \in Keys : DialReceive(r, k)
    \/ \E r \in Reqs : GetDialoutCollection(r)
    \/ \E r \in Reqs : PostDialout(r)
    \/ \E r \in Reqs : DialStorageFails(r)
    \/ \E r \in Reqs : Alert(r)

SpecDial == InitDial /\ [][NextDial]_vars

\* the post_dialout calls carrying key k that have returned
Returned(k) == { r \in Reqs : dKey[r] = k /\ dPost[r] \in { "True", "False" } }

\* C14: of the post_dialout calls carrying one idempotency key that have
\* returned, in whatever order or interleaving they ran, exactly one returned
\* True and every other one False, and the collection holds exactly one
\* document with that key; it never holds more than one.
C14_IdempotentInsert ==
    \A k \in Keys :
        /\ docs[k] <= 1
        /\ docs[k] = Cardinality({ r \in Returned(k) : dPost[r] = "True" })
        /\ Returned(k) # {} => docs[k] = 1

\* every request carried the same key and every post_dialout has returned
C14_Witness ==
    \E k \in Keys :
        /\ Returned(k) = Reqs
        /\ \E r \in Reqs : dPost[r] = "False"

\* C15: a finished PUT /dialout/alert has scheduled a dispatch exactly when
\* its document was stored: a duplicate key gets FAILED and no dispatch,
\* any other request gets OK and its dispatch scheduled; so at most one
\* dispatch is scheduled per idempotency key.
C15_DispatchIffStored ==
    /\ \A r \in Reqs :
          dPc[r] = "done"
          => /\ dSched[r] <=> dPost[r] = "True"
             /\ dPost[r] = "False" => dStatus[r] = "FAILED"
             /\ dPost[r] = "True" => dStatus[r] = "OK"
    /\ \A k \in Keys : Cardinality({ r \in Reqs : dKey[r] = k /\ dSched[r] }) <= 1

\* ============================================================ TelAlert
\* a gather that lets the first exception through
FirstExceptionRaises == FALSE

\* asyncio.gather(*tasks, return_exceptions=True)
ReturnExceptions == TRUE

\* a permit that is given back only by a command that succeeded
ReleasedOnSuccess(outcome) == IF outcome = "ok" THEN 1 ELSE 0

\* async with self._lock: the permit is given back however the block ends
Released(outcome) == 1

\* the commands of a message with g groups and d destinations: one per
\* group, then one per destination
Commands(g, d) == [ i \in 1..(g + d) |-> IF i <= g THEN "-g" ELSE "-i" ]

\* the commands of call a that are in state st
InState(a, st) == { i \in 1..Len(taSt[a]) : taSt[a][i] = st }

\* send_alert up to its await: the commands are built and gather makes one
\* task per command; a TelAlertMessage has a group or a destination
SendAlert(a, g, d) ==
    /\ taPc[a] = "idle"
    /\ g + d >= 1
    /\ g + d <= MaxCommands
    /\ taGroups' = [ taGroups EXCEPT ![a] = g ]
    /\ taDests' = [ taDests EXCEPT ![a] = d ]
    /\ taKind' = [ taKind EXCEPT ![a] = Commands(g, d) ]
    /\ taSt' = [ taSt EXCEPT ![a] = [ i \in 1..(g + d) |-> "queued" ] ]
    /\ taPc' = [ taPc EXCEPT ![a] = "gather" ]
    /\ UNCHANGED << taWorkers, taPermits, notTel >>

\* _execute_command gets a permit and hands the command to a thread
ExecuteCommand(a, i) ==
    /\ i \in InState(a, "queued")
    /\ taPermits > 0
    /\ taPermits' = taPermits - 1
    /\ taSt' = [ taSt EXCEPT ![a][i] = "running" ]
    /\ UNCHANGED << taWorkers, taPc, taGroups, taDests, taKind, notTel >>

\* the subprocess ends: exit code 0, or CalledProcessError, TimeoutExpired
\* or another exception; the async with block is left
CommandEnds(a, i, outcome) ==
    /\ i \in InState(a, "running")
    /\ taSt' = [ taSt EXCEPT ![a][i] = outcome ]
    /\ taPermits' = taPermits + Released(outcome)
    /\ taPc' = IF outcome = "failed" /\ ~ ReturnExceptions /\ taPc[a] = "gather"
               THEN [ taPc EXCEPT ![a] = "raised" ]
               ELSE taPc
    /\ UNCHANGED << taWorkers, taGroups, taDests, taKind, notTel >>

\* every task is done: gather returns the results, the failures are logged
\* and send_alert returns None
SendAlertReturns(a) ==
    /\ taPc[a] = "gather"
    /\ InState(a, "ok") \cup InState(a, "failed") = 1..Len(taSt[a])
    /\ taPc' = [ taPc EXCEPT ![a] = "returned" ]
    /\ UNCHANGED << taWorkers, taPermits, taGroups, taDests, taKind, taSt, notTel >>

InitTel == IntegrationIdle /\ AuthIdle /\ DialIdle /\ TelStarted(1..MaxWorkersChoice) /\ TxIdle /\ FnIdle /\ CnIdle /\ GuIdle /\ PbIdle /\ CaIdle

NextTel ==
    \/ \E a \in Alerts, g, d \in 0..MaxTargets : SendAlert(a, g, d)
    \/ \E a \in Alerts, i \in 1..MaxCommands : ExecuteCommand(a, i)
    \/ \E a \in Alerts, i \in 1..MaxCommands, o \in { "ok", "failed" } : CommandEnds(a, i, o)
    \/ \E a \in Alerts : SendAlertReturns(a)

SpecTel == InitTel /\ [][NextTel]_vars

\* the event loop runs every task that can run, and a subprocess ends within
\* the timeout of log_subprocess
SpecTelFair ==
    /\ SpecTel
    /\ \A a \in Alerts, i \in 1..MaxCommands :
          /\ WF_vars(ExecuteCommand(a, i))
          /\ WF_vars(CommandEnds(a, i, "ok") \/ CommandEnds(a, i, "failed"))

\* the commands of all calls
AllCommands == { << a, i >> : a \in Alerts, i \in 1..MaxCommands }

\* command c is in state st
CmdIs(c, st) == c[2] \in InState(c[1], st)

Ended(c) == CmdIs(c, "ok") \/ CmdIs(c, "failed")

\* the commands that hold a permit
Executing == { c \in AllCommands : CmdIs(c, "running") }

C17_BoundedWorkers ==
    /\ [] ( /\ Cardinality(Executing) <= taWorkers
            /\ taPermits = taWorkers - Cardinality(Executing) )
    /\ [][ \A c \in AllCommands :
              ( CmdIs(c, "running") /\ Ended(c)' ) => taPermits' = taPermits + 1 ]_vars
    /\ \A c \in AllCommands : CmdIs(c, "queued") ~> CmdIs(c, "running")

\* every permit is taken, a command waits, and commands have failed
C17_Witness ==
    /\ taWorkers = MaxWorkersChoice
    /\ Cardinality(Executing) = taWorkers
    /\ \E c \in AllCommands : CmdIs(c, "queued")
    /\ Cardinality({ c \in AllCommands : CmdIs(c, "failed") }) >= taWorkers

\* ==================================================== Traxx connection
\* the responses of a poll: the timestamps of the rows of the CSV, in the
\* order of the rows (none: no content, or no row)
RECURSIVE SeqsUpTo(_, _)
SeqsUpTo(S, n) ==
    IF n = 0 THEN { << >> }
    ELSE LET shorter == SeqsUpTo(S, n - 1)
         IN shorter \cup { Append(q, x) : q \in shorter, x \in S }

Responses == SeqsUpTo(1..MaxTs, MaxRows)

\* TraxxSensorMessage.filter: the items later than last_timestamp, in the
\* order they have
RECURSIVE Filter(_, _)
Filter(items, last_timestamp) ==
    IF items = << >> THEN << >>
    ELSE IF Head(items) > last_timestamp
         THEN << Head(items) >> \o Filter(Tail(items), last_timestamp)
         ELSE Filter(Tail(items), last_timestamp)

\* a handler that treats no exception as fatal
NothingFatal(e) == FALSE

\* except TraxxExpiredSession: raise
Fatal(e) == e = "expired"

\* if backoff.failures >= max_missed_updates: raise
Exhausted(failures) == failures >= txMax

\* EqualJitterBackoff.compute: one more failure (and the delay)
BackoffCompute(failures) == failures + 1

\* EqualJitterBackoff.reset
BackoffReset == 0

\* a poll succeeds with the rows resp; valid tells whether the rows pass the
\* validation of TraxxSensorMessage. The first valid batch only sets the
\* watermark; of a later one the items after the watermark are published
\* and the last of them becomes the watermark
PollOk(resp, valid) ==
    /\ txPc = "poll"
    /\ txPolls < MaxPolls
    /\ txPolls' = txPolls + 1
    /\ txLast' = "ok"
    /\ txStreak' = 0
    /\ txFailures' = BackoffReset
    /\ IF resp = << >> \/ ~ valid
       THEN UNCHANGED << txLastTs, txEmitted >>
       ELSE IF txLastTs = 0
       THEN /\ txLastTs' = resp[Len(resp)]
            /\ txEmitted' = txEmitted
       ELSE LET items == Filter(resp, txLastTs)
            IN IF items = << >>
               THEN UNCHANGED << txLastTs, txEmitted >>
               ELSE /\ txLastTs' = items[Len(items)]
                    /\ txEmitted' = txEmitted \o items
    /\ txPc' = "sleep"
    /\ UNCHANGED << txMax, txExc, notTx >>

\* a poll raises e: session expired, or anything else. A fatal one, or one
\* that finds the failures used up, is re-raised and run ends; any other
\* is followed by a backoff delay
PollRaises(e) ==
    /\ txPc = "poll"
    /\ txPolls < MaxPolls
    /\ txPolls' = txPolls + 1
    /\ txLast' = e
    /\ txStreak' = IF e = "error" THEN txStreak + 1 ELSE txStreak
    /\ IF Fatal(e) \/ Exhausted(txFailures)
       THEN /\ txPc' = "ended"
            /\ txExc' = e
            /\ txFailures' = txFailures
       ELSE /\ txPc' = "backoff"
            /\ txExc' = txExc
            /\ txFailures' = BackoffCompute(txFailures)
    /\ UNCHANGED << txMax, txLastTs, txEmitted, notTx >>

\* asyncio.sleep(backoff_delay) is over: continue
BackoffOver ==
    /\ txPc = "backoff"
    /\ txPc' = "poll"
    /\ UNCHANGED << txMax, txFailures, txLastTs, txEmitted, txExc, txLast, txStreak, txPolls, notTx >>

\* the sleeper is done: the next iteration
SleeperOver ==
    /\ txPc = "sleep"
    /\ txPc' = "poll"
    /\ UNCHANGED << txMax, txFailures, txLastTs, txEmitted, txExc, txLast, txStreak, txPolls, notTx >>

InitTx == IntegrationIdle /\ AuthIdle /\ DialIdle /\ TelIdle /\ TxStarted(1..MaxMissedChoice) /\ FnIdle /\ CnIdle /\ GuIdle /\ PbIdle /\ CaIdle

NextTx ==
    \/ \E resp \in Responses, valid \in BOOLEAN : PollOk(resp, valid)
    \/ \E e \in { "expired", "error" } : PollRaises(e)
    \/ BackoffOver
    \/ SleeperOver

SpecTx == InitTx /\ [][NextTx]_vars

\* a poll is answered in this step
Polls == txPolls' = txPolls + 1

\* C18: the timestamps of the items emitted by one connection are strictly
\* increasing, within each message and across successive messages, for any
\* sequence of poll responses.
C18_StrictlyIncreasing ==
    \A i, j \in 1..Len(txEmitted) : i < j => txEmitted[i] < txEmitted[j]

\* C19: a poll that raises session expired ends run at once with that
\* error: no backoff delay follows, the failure counter keeps its value,
\* nothing is emitted; and a connection that has ended polls no more.
C19_ExpiredIsFatal ==
    [][ /\ ( Polls /\ txLast' = "expired" )
           => /\ txPc' = "ended"
              /\ txExc' = "expired"
              /\ txFailures' = txFailures
              /\ txStreak' = txStreak
              /\ txEmitted' = txEmitted
        /\ txPc = "ended" => ( ~ Polls /\ txPc' = "ended" ) ]_vars

\* the session expired after failures had been counted
C19_Witness ==
    /\ txExc = "expired"
    /\ txPc = "ended"
    /\ txFailures > 0
    /\ txFailures < txMax

\* C20: a failed poll other than session expiry is followed by a backoff
\* delay and a retry, unless it is the max_missed_updates-th failed poll in
\* a row: that one re-raises and ends the connection; a successful poll
\* sets the count of failures back to zero.
C20_RetryUntilMax ==
    [][ /\ ( Polls /\ txLast' = "error" )
           => IF txStreak' = txMax
              THEN txPc' = "ended" /\ txExc' = "error"
              ELSE txPc' = "backoff" /\ txExc' = "none"
        /\ ( Polls /\ txLast' = "ok" ) => txFailures' = 0 ]_vars

\* ================================================= stateless functions
\* ClientResponse.raise_for_status raises from this status code on
ErrorStatus == 400

\* the responses handle_request is given: a status code and a body that is
\* empty, that contains '<!DOCTYPE html>', or that is CSV text
HrInputs ==
    [ fn : { "handle_request" },
      status : { 200, 204, 302, 400, 401, 403, 404, 500, 503 },
      body : { "empty", "html", "csv" },
      raise_for_status : BOOLEAN ]

\* handle_request: the status is looked at first, the body afterwards
HandleRequest(status, body, raise_for_status) ==
    IF status >= ErrorStatus
    THEN IF raise_for_status THEN "ClientResponseError" ELSE "None"
    ELSE IF body = "empty" THEN "None"
    ELSE IF body = "html" THEN "TraxxExpiredSession"
    ELSE "rows"

ApplyHandleRequest ==
    /\ fnIn.fn = "handle_request"
    /\ ~ fnDone
    /\ fnDone' = TRUE
    /\ fnOut' = HandleRequest(fnIn.status, fnIn.body, fnIn.raise_for_status)
    /\ UNCHANGED << fnIn, notFn >>

\* the calls of get_alerts: the timestamps of the stored documents in the
\* order of the collection, start_time, end_time (0: None) and the clock
GaInputs ==
    [ fn : { "get_alerts" },
      stored : SeqsUpTo(1..MaxTime, MaxDocs),
      start_time : 1..MaxTime,
      end_time : 0..MaxTime,
      now : 1..MaxTime ]

\* a faulty check, which lets an empty range through
StartAfterEnd(start_time, end_time) == start_time > end_time

\* if start_time >= end_time: raise ValueError
InvalidRange(start_time, end_time) == start_time >= end_time

\* collection.find({"timestamp": {"$gte": start_time, "$lte": end_time}})
RECURSIVE Find(_, _, _)
Find(stored, start_time, end_time) ==
    IF stored = << >> THEN << >>
    ELSE IF Head(stored) >= start_time /\ Head(stored) <= end_time
         THEN << Head(stored) >> \o Find(Tail(stored), start_time, end_time)
         ELSE Find(Tail(stored), start_time, end_time)

\* t put into an ascending sequence, after the items that are not later
RECURSIVE Inserted(_, _)
Inserted(q, t) ==
    IF q = << >> THEN << t >>
    ELSE IF Head(q) <= t THEN << Head(q) >> \o Inserted(Tail(q), t)
    ELSE << t >> \o q

\* cursor.sort("timestamp", 1)
RECURSIVE SortAscending(_)
SortAscending(q) ==
    IF q = << >> THEN << >>
    ELSE Inserted(SortAscending(SubSeq(q, 1, Len(q) - 1)), q[Len(q)])

\* end_time or datetime.utcnow()
EndTime(end_time, now) == IF end_time = 0 THEN now ELSE end_time

\* get_alerts, iterated to its end
GetAlerts(stored, start_time, end_time, now) ==
    LET end == EndTime(end_time, now)
    IN  IF InvalidRange(start_time, end)
        THEN [ raised |-> "ValueError", queries |-> 0, rows |-> << >> ]
        ELSE [ raised |-> "none", queries |-> 1,
               rows |-> SortAscending(Find(stored, start_time, end)) ]

ApplyGetAlerts ==
    /\ fnIn.fn = "get_alerts"
    /\ ~ fnDone
    /\ fnDone' = TRUE
    /\ fnOut' = GetAlerts(fnIn.stored, fnIn.start_time, fnIn.end_time, fnIn.now)
    /\ UNCHANGED << fnIn, notFn >>

\* the values a field of type Sequence[str] | None with default_factory=list
\* can be given: nothing, null, or a list of 0 to MaxTargets names
Targets ==
    { [ is |-> "absent", len |-> 0 ], [ is |-> "None", len |-> 0 ] }
    \cup [ is : { "list" }, len : 0..MaxTargets ]

\* the messages a TelAlertMessage is built from
TmInputs == [ fn : { "TelAlertMessage" }, groups : Targets, destinations : Targets ]

\* the field after validation: the default is an empty list, null stays None
Field(given) == IF given.is = "absent" THEN [ is |-> "list", len |-> 0 ] ELSE given

\* not x, for a list of x names or None
Not(x) == x.is = "None" \/ x.len = 0

\* _validate_message: a ValueError when neither field has a member
Validates(groups, destinations) == ~ ( Not(groups) /\ Not(destinations) )

\* the loops of send_alert over message.groups and message.destinations:
\* the number of commands built, or the TypeError of iterating over None,
\* which ends send_alert before any command is executed
BuildCommands(groups, destinations) ==
    IF groups.is = "None" \/ destinations.is = "None"
    THEN [ raised |-> "TypeError", built |-> 0 ]
    ELSE [ raised |-> "none", built |-> Len(Commands(groups.len, destinations.len)) ]

\* TelAlertMessage(...), then send_alert on the message if there is one
TelAlertMessage(g, d) ==
    LET groups == Field(g)
        destinations == Field(d)
    IN  IF Validates(groups, destinations)
        THEN [ raised |-> "none", groups |-> groups, destinations |-> destinations,
               commands |-> BuildCommands(groups, destinations) ]
        ELSE [ raised |-> "ValidationError", groups |-> groups, destinations |-> destinations,
               commands |-> [ raised |-> "none", built |-> 0 ] ]

ApplyTelAlertMessage ==
    /\ fnIn.fn = "TelAlertMessage"
    /\ ~ fnDone
    /\ fnDone' = TRUE
    /\ fnOut' = TelAlertMessage(fnIn.groups, fnIn.destinations)
    /\ UNCHANGED << fnIn, notFn >>

\* ---- domain controller discovery -------------------------------------------

\* math.inf, the RTT of a host that refused one connection: above every mean
Inf == 1000

\* time of one sock.connect in milliseconds, Inf when it raises socket.error
Connects == { 10, 50, Inf }

\* the lines of nltest /dclist that name a host, in the order printed; a host
\* is named by its rank in the order of host names (1 is "hostA")
HostLists ==
    { q \in SeqsUpTo([ host : 1..MaxHosts, connects : [ 1..MeanRttAttempts -> Connects ] ],
                     MaxHosts) :
        \A i, j \in 1..Len(q) : q[i].host = q[j].host => i = j }

DcInputs ==
    [ fn : { "discover_domain_controllers" }, platform : { "win32", "linux" },
      hosts : HostLists, limit : 1..MaxHosts ]

RECURSIVE SumTo(_, _)
SumTo(connects, n) == IF n = 0 THEN 0 ELSE SumTo(connects, n - 1) + connects[n]

\* get_rtt: math.inf at the first connection refused, the mean otherwise
GetRtt(connects) ==
    IF \E i \in 1..MeanRttAttempts : connects[i] = Inf THEN Inf
    ELSE SumTo(connects, MeanRttAttempts) \div MeanRttAttempts

\* the order of the tuples (rtt, host)
TupleLess(a, b) == a.rtt < b.rtt \/ ( a.rtt = b.rtt /\ a.host < b.host )

RECURSIVE InsertedTuple(_, _)
InsertedTuple(q, t) ==
    IF q = << >> THEN << t >>
    ELSE IF TupleLess(t, Head(q)) THEN << t >> \o q
    ELSE << Head(q) >> \o InsertedTuple(Tail(q), t)

\* sorted(zip(rtt, hosts))
RECURSIVE SortedTuples(_)
SortedTuples(q) ==
    IF q = << >> THEN << >>
    ELSE InsertedTuple(SortedTuples(SubSeq(q, 1, Len(q) - 1)), q[Len(q)])

\* sorted_[:limit]
UpTo(sorted_, limit) ==
    SubSeq(sorted_, 1, IF Len(sorted_) < limit THEN Len(sorted_) ELSE limit)

DiscoverDomainControllers(platform, hosts, limit) ==
    IF platform # "win32" THEN [ raised |-> "RuntimeError", hosts |-> << >> ]
    ELSE IF hosts = << >> THEN [ raised |-> "NoHostsFound", hosts |-> << >> ]
    ELSE LET rtt == [ i \in 1..Len(hosts) |->
                        [ rtt |-> GetRtt(hosts[i].connects), host |-> hosts[i].host ] ]
         IN [ raised |-> "none", hosts |-> UpTo(SortedTuples(rtt), limit) ]

ApplyDiscoverDomainControllers ==
    /\ fnIn.fn = "discover_domain_controllers"
    /\ ~ fnDone
    /\ fnDone' = TRUE
    /\ fnOut' = DiscoverDomainControllers(fnIn.platform, fnIn.hosts, fnIn.limit)
    /\ UNCHANGED << fnIn, notFn >>

\* FileCookieAuthFlow: the suffix of the path and whether the file exists
Suffixes == { ".json", ".JSON", ".toml", ".yml", ".Yml", ".yaml", ".txt", "" }

FcInputs ==
    { [ fn |-> "FileCookieAuthFlow", exists |-> x, suffix |-> sfx ] :
          x \in BOOLEAN, sfx \in Suffixes }

\* path.suffix.lower()
Lower(suffix) ==
    CASE suffix = ".JSON" -> ".json"
      [] suffix = ".Yml" -> ".yml"
      [] OTHER -> suffix

\* a test of the suffix that lets .yaml through as well
InTupleOrYaml(suffix) == suffix \in { ".json", ".toml", ".yml", ".yaml" }
\* path.suffix.lower() in (".json", ".toml", ".yml")
InTuple(suffix) == suffix \in { ".json", ".toml", ".yml" }

\* auth_flow: the match statement picks the parser of the file; it has no
\* other case, so that cookies would be unbound
AuthFlowParser(suffix) ==
    CASE suffix = ".json" -> "json.loads"
      [] suffix = ".toml" -> "toml.loads"
      [] suffix = ".yml" -> "yaml.safe_load"
      [] OTHER -> "UnboundLocalError"

\* FileCookieAuthFlow(path), then auth_flow for a request
FileCookieAuthFlow(exists, suffix) ==
    IF ~ exists THEN [ raised |-> "FileNotFoundError", parser |-> "none" ]
    ELSE IF ~ InTuple(Lower(suffix)) THEN [ raised |-> "ValueError", parser |-> "none" ]
    ELSE [ raised |-> "none", parser |-> AuthFlowParser(Lower(suffix)) ]

ApplyFileCookieAuthFlow ==
    /\ fnIn.fn = "FileCookieAuthFlow"
    /\ ~ fnDone
    /\ fnDone' = TRUE
    /\ fnOut' = FileCookieAuthFlow(fnIn.exists, fnIn.suffix)
    /\ UNCHANGED << fnIn, notFn >>

FnInputs == HrInputs \cup GaInputs \cup TmInputs \cup DcInputs \cup FcInputs

\* any of the calls, not made yet
FnStarted == fnIn \in FnInputs /\ fnDone = FALSE /\ fnOut = "pending"

InitFn == IntegrationIdle /\ AuthIdle /\ DialIdle /\ TelIdle /\ TxIdle /\ FnStarted /\ CnIdle /\ GuIdle /\ PbIdle /\ CaIdle

NextFn ==
    \/ ApplyHandleRequest
    \/ ApplyGetAlerts
    \/ ApplyTelAlertMessage
    \/ ApplyDiscoverDomainControllers
    \/ ApplyFileCookieAuthFlow

SpecFn == InitFn /\ [][NextFn]_vars

\* C21: handle_request raises TraxxExpiredSession for every response whose
\* body contains '<!DOCTYPE html>', whatever its status code, and never
\* returns CSV rows for such a response.
C21_HtmlIsExpiry ==
    ( fnIn.fn = "handle_request" /\ fnDone /\ fnIn.body = "html" )
    => fnOut = "TraxxExpiredSession"

\* C25: get_alerts with start_time >= end_time (the clock standing in for
\* an absent end_time) raises ValueError, issues no storage query and yields
\* no row; with start_time < end_time every row is a stored document with
\* start_time <= timestamp <= end_time, and the rows come in ascending
\* order of timestamp.
C25_RangeChecked ==
    ( fnIn.fn = "get_alerts" /\ fnDone )
    => LET end == IF fnIn.end_time = 0 THEN fnIn.now ELSE fnIn.end_time
           rows == fnOut.rows
       IN  IF fnIn.start_time >= end
           THEN fnOut.raised = "ValueError" /\ fnOut.queries = 0 /\ rows = << >>
           ELSE /\ fnOut.raised = "none"
                /\ \A i \in 1..Len(rows) :
                      /\ rows[i] \in ToSet(fnIn.stored)
                      /\ fnIn.start_time <= rows[i]
                      /\ rows[i] <= end
                /\ \A i, j \in 1..Len(rows) : i < j => rows[i] <= rows[j]

\* start_time equals the clock and end_time is absent: the range is empty
C25_Witness ==
    /\ fnIn.fn = "get_alerts"
    /\ fnDone
    /\ fnIn.end_time = 0
    /\ fnIn.start_time = fnIn.now
    /\ fnIn.stored # << >>
    /\ fnOut.raised = "ValueError"

\* the field has no member: it is absent, null or an empty list
NoMember(given) == given.is \in { "absent", "None" } \/ given.len = 0

\* C26: a TelAlertMessage is constructed exactly when it is given at least
\* one group or at least one destination, and for every constructed message
\* send_alert builds at least one command.
C26_AtLeastOneCommand ==
    ( fnIn.fn = "TelAlertMessage" /\ fnDone )
    => /\ fnOut.raised = "ValidationError"
          <=> ( NoMember(fnIn.groups) /\ NoMember(fnIn.destinations) )
       /\ fnOut.raised = "none"
          => ( fnOut.commands.raised = "none" /\ fnOut.commands.built >= 1 )


\* C27: discover_domain_controllers returns the hosts in ascending order of
\* mean RTT, at most limit of them, and never a host that could not be reached
\* (for hostA = 50 ms, hostB = 10 ms, hostC unreachable: [hostB, hostA]).
C27_UnreachableExcluded ==
    ( fnIn.fn = "discover_domain_controllers" /\ fnDone /\ fnOut.raised = "none" )
        => /\ Len(fnOut.hosts) <= fnIn.limit
           /\ \A i, j \in 1..Len(fnOut.hosts) :
                 i < j => fnOut.hosts[i].rtt <= fnOut.hosts[j].rtt
           /\ \A i \in 1..Len(fnOut.hosts) : fnOut.hosts[i].rtt # Inf


\* ---- one connection: start, run and the subscribe that asked for it --------

\* start: the subscriptions are recorded, the runner and the waiter tasks
\* are created and start waits for the first of them
CnStart ==
    /\ cnStart = "idle"
    /\ cnStart' = "waiting"
    /\ cnRun' = "build"
    /\ UNCHANGED << cnKind, cnBad, cnMax, cnStartExc, cnRaised, cnStarted, cnWaiter, cnOpens,
                    cnFailures, cnE, cnStreak, cnSub, cnRegistered, cnWs, notCn >>

\* build_url raises ValueError for a subscription of another web_id_type
BuildUrlAccepts(bad) == FALSE
BuildUrlRaises(bad) == bad

\* run of a PIWebConnection up to build_url
CnBuildUrl ==
    /\ cnKind = "piweb"
    /\ cnRun = "build"
    /\ IF BuildUrlRaises(cnBad)
       THEN cnRun' = "done" /\ cnRaised' = "ValueError"
       ELSE cnRun' = "connect" /\ UNCHANGED cnRaised
    /\ UNCHANGED << cnKind, cnBad, cnMax, cnStart, cnStartExc, cnStarted, cnWaiter, cnOpens,
                    cnFailures, cnE, cnStreak, cnSub, cnRegistered, cnWs, notCn >>

\* the first create_connection of run: on success the backoff is created
\* and readiness is signalled, which completes the waiter of start; a
\* failure ends run
CnConnect(ok) ==
    /\ cnKind = "piweb"
    /\ cnRun = "connect"
    /\ cnOpens' = cnOpens + 1
    /\ IF ok
       THEN /\ cnRun' = "reading"
            /\ cnWs' = "open"
            /\ cnStarted' = TRUE
            /\ cnWaiter' = TRUE
            /\ UNCHANGED cnRaised
       ELSE /\ cnRun' = "done"
            /\ cnRaised' = "ClientError"
            /\ UNCHANGED << cnStarted, cnWaiter, cnWs >>
    /\ UNCHANGED << cnKind, cnBad, cnMax, cnStart, cnStartExc, cnFailures, cnE, cnStreak,
                    cnSub, cnRegistered, notCn >>

\* run of a TraxxConnection up to its first request: without a subscription
\* self.subscription is None and reading its asset_id raises AttributeError;
\* otherwise readiness is signalled
CnTraxxRun ==
    /\ cnKind = "traxx"
    /\ cnRun = "build"
    /\ IF cnBad
       THEN /\ cnRun' = "done"
            /\ cnRaised' = "AttributeError"
            /\ UNCHANGED << cnStarted, cnWaiter >>
       ELSE /\ cnRun' = "reading"
            /\ cnStarted' = TRUE
            /\ cnWaiter' = TRUE
            /\ UNCHANGED cnRaised
    /\ UNCHANGED << cnKind, cnBad, cnMax, cnStart, cnStartExc, cnOpens, cnFailures, cnE,
                    cnStreak, cnSub, cnRegistered, cnWs, notCn >>

\* while backoff.failures < max_reconnect_attempts
WithinOrAt(failures, max) == failures <= max
Within(failures, max) == failures < max

\* max_reconnect_attempts is not None and max_reconnect_attempts > 0
ReconnectEnabled(max) == max > 0

\* a finally clause that closes no websocket
NeverCloses(ws) == FALSE
\* if not ws.closed
NotClosed(ws) == ws = "open"

\* the finally clause of run: the event is cleared and a websocket that is
\* not closed is closed; ws.close() marks it closed before it first
\* suspends, and run is over when the close returns
Finally ==
    /\ cnStarted' = FALSE
    /\ IF NotClosed(cnWs)
       THEN cnWs' = "closed" /\ cnRun' = "closing"
       ELSE cnRun' = "done" /\ UNCHANGED cnWs

\* run ends after a close: raise e if there is one, else break; then the
\* finally clause
CnRunEnds(e) ==
    /\ cnRaised' = IF e # "none" THEN e ELSE "returned"
    /\ Finally

\* the peer closes the websocket or the network fails: the frames end, e is
\* ws.exception(), and run enters the reconnect loop or ends
CnPeerClose(e) ==
    /\ cnKind = "piweb"
    /\ cnRun = "reading"
    /\ cnE' = e
    /\ cnStreak' = 0
    /\ IF ReconnectEnabled(cnMax) /\ Within(cnFailures, cnMax)
       THEN cnRun' = "reconnect" /\ cnWs' = "closed" /\ UNCHANGED << cnRaised, cnStarted >>
       ELSE /\ cnRaised' = IF e # "none" THEN e ELSE "returned"
            /\ cnStarted' = FALSE
            /\ cnWs' = "closed"
            /\ cnRun' = "done"
    /\ UNCHANGED << cnKind, cnBad, cnMax, cnStart, cnStartExc, cnWaiter, cnOpens, cnFailures,
                    cnSub, cnRegistered, notCn >>

\* one reconnect attempt: on success the backoff is reset and the frames are
\* read again; on failure the backoff counts it and run sleeps
CnReconnect(ok) ==
    /\ cnRun = "reconnect"
    /\ cnOpens < MaxOpens
    /\ cnOpens' = cnOpens + 1
    /\ IF ok
       THEN /\ cnFailures' = BackoffReset
            /\ cnRun' = "reading"
            /\ cnWs' = "open"
            /\ UNCHANGED cnStreak
       ELSE /\ cnFailures' = BackoffCompute(cnFailures)
            /\ cnRun' = "sleep"
            /\ cnStreak' = cnStreak + 1
            /\ UNCHANGED cnWs
    /\ UNCHANGED << cnKind, cnBad, cnMax, cnStart, cnStartExc, cnRaised, cnStarted, cnWaiter,
                    cnE, cnSub, cnRegistered, notCn >>

\* the backoff delay is over: another attempt while the budget lasts, else
\* ws is still the closed websocket and run ends
CnSleepOver ==
    /\ cnRun = "sleep"
    /\ IF Within(cnFailures, cnMax)
       THEN cnRun' = "reconnect" /\ UNCHANGED << cnRaised, cnStarted, cnWs >>
       ELSE CnRunEnds(cnE)
    /\ UNCHANGED << cnKind, cnBad, cnMax, cnStart, cnStartExc, cnWaiter, cnOpens, cnFailures,
                    cnE, cnStreak, cnSub, cnRegistered, notCn >>

\* an error nothing handles while the connection is ready (a frame for a
\* WebId that is not in the index, the missed updates of Traxx exhausted)
CnRunFails ==
    /\ cnRun = "reading"
    /\ cnRaised' = "Error"
    /\ Finally
    /\ UNCHANGED << cnKind, cnBad, cnMax, cnStart, cnStartExc, cnWaiter, cnOpens, cnFailures,
                    cnE, cnStreak, cnSub, cnRegistered, notCn >>

\* ws.close() returns: run is over
CnClosed ==
    /\ cnRun = "closing"
    /\ cnRun' = "done"
    /\ UNCHANGED << cnKind, cnBad, cnMax, cnStart, cnStartExc, cnRaised, cnStarted, cnWaiter,
                    cnOpens, cnFailures, cnE, cnStreak, cnSub, cnRegistered, cnWs, notCn >>

\* the integration cancels the task of a connection of its map (unsubscribe,
\* consolidation, close): CancelledError is raised where run is suspended,
\* in the try block or in the ws.close() of the finally clause
CnCancel ==
    /\ cnRegistered
    /\ cnRun \in { "reading", "reconnect", "sleep", "closing" }
    /\ cnRaised' = "CancelledError"
    /\ IF cnRun = "closing"
       THEN cnRun' = "done" /\ UNCHANGED << cnStarted, cnWs >>
       ELSE Finally
    /\ UNCHANGED << cnKind, cnBad, cnMax, cnStart, cnStartExc, cnWaiter, cnOpens, cnFailures,
                    cnE, cnStreak, cnSub, cnRegistered, notCn >>

\* asyncio.wait(..., FIRST_COMPLETED) of start is over
FirstCompleted == cnWaiter \/ cnRun = "done"

\* if not waiter.done(): start raises instead of returning the runner
ReturnsAnyway(waiter) == FALSE
StartRaises(waiter) == ~ waiter

\* start resumes: it returns the runner when the waiter is done, else it
\* raises the runner's exception, or RuntimeError when there is none
CnStartReturns ==
    /\ cnStart = "waiting"
    /\ FirstCompleted
    /\ IF StartRaises(cnWaiter)
       THEN /\ cnStart' = "raised"
            /\ cnStartExc' = IF cnRaised \in { "running", "returned" } THEN "RuntimeError"
                             ELSE cnRaised
       ELSE /\ cnStart' = "task"
            /\ UNCHANGED cnStartExc
    /\ UNCHANGED << cnKind, cnBad, cnMax, cnRun, cnRaised, cnStarted, cnWaiter, cnOpens,
                    cnFailures, cnE, cnStreak, cnSub, cnRegistered, cnWs, notCn >>

\* _create_connections and subscribe once the starter is gathered: an
\* exception makes _create_connections return None and subscribe False;
\* a task gets connection_lost as done callback, is added to the connection
\* map and subscribe returns True
CnSubscribeReturns ==
    /\ cnSub = "pending"
    /\ cnStart \in { "task", "raised" }
    /\ IF cnStart = "raised"
       THEN cnSub' = "False" /\ UNCHANGED cnRegistered
       ELSE cnSub' = "True" /\ cnRegistered' = TRUE
    /\ UNCHANGED << cnKind, cnBad, cnMax, cnStart, cnStartExc, cnRun, cnRaised, cnStarted,
                    cnWaiter, cnOpens, cnFailures, cnE, cnStreak, cnWs, notCn >>

\* connection_lost, the done callback of a registered task
CnConnectionLost ==
    /\ cnRegistered
    /\ cnRun = "done"
    /\ cnRegistered' = FALSE
    /\ UNCHANGED << cnKind, cnBad, cnMax, cnStart, cnStartExc, cnRun, cnRaised, cnStarted,
                    cnWaiter, cnOpens, cnFailures, cnE, cnStreak, cnSub, cnWs, notCn >>

InitCn == IntegrationIdle /\ AuthIdle /\ DialIdle /\ TelIdle /\ TxIdle /\ FnIdle /\ CnStarted({ "piweb", "traxx" }, 0..MaxReconnect) /\ GuIdle /\ PbIdle /\ CaIdle

NextCn ==
    \/ CnStart
    \/ CnBuildUrl
    \/ \E ok \in BOOLEAN : CnConnect(ok)
    \/ CnTraxxRun
    \/ \E e \in { "none", "CloseError" } : CnPeerClose(e)
    \/ \E ok \in BOOLEAN : CnReconnect(ok)
    \/ CnSleepOver
    \/ CnRunFails
    \/ CnClosed
    \/ CnCancel
    \/ CnStartReturns
    \/ CnSubscribeReturns
    \/ CnConnectionLost

SpecCn == InitCn /\ [][NextCn]_vars


\* what run raises or returns when it ends after a close with exception e
AfterClose(e) == IF e # "none" THEN e ELSE "returned"

\* C22: after a close by the peer a PIWebConnection with
\* max_reconnect_attempts = N > 0 makes at most N failed reconnect attempts
\* in a row; a successful attempt zeroes the failure counter and the frames
\* are read again; when the N attempts have failed, or when reconnecting is
\* disabled, run ends and re-raises the exception of the close if there is
\* one.
C22_BoundedReconnect ==
    /\ [] ( ( cnKind = "piweb" /\ ReconnectEnabled(cnMax) ) => cnStreak <= cnMax )
    /\ [][ /\ ( cnRun = "reconnect" /\ cnRun' = "reading" )
                => ( cnFailures' = 0 /\ cnRaised' = "running" )
           /\ ( cnRun = "reading" /\ cnRun' # "reading"
                   /\ cnRaised' \notin { "Error", "CancelledError" } )
                => IF ReconnectEnabled(cnMax)
                   THEN cnRun' = "reconnect" /\ cnFailures = 0
                   ELSE cnRun' = "done" /\ cnRaised' = AfterClose(cnE')
           /\ ( cnRun = "sleep" /\ cnRun' # "sleep" /\ cnRaised' # "CancelledError" )
                => IF cnStreak = cnMax
                   THEN cnRun' = "done" /\ cnRaised' = AfterClose(cnE)
                   ELSE cnRun' = "reconnect"
       ]_vars

\* a reconnect succeeded after one close, then all the attempts failed after
\* another close that had an exception
C22_Witness ==
    /\ cnMax = MaxReconnect
    /\ cnStreak = cnMax
    /\ cnOpens > cnMax + 1
    /\ cnRun = "done"
    /\ cnRaised = "CloseError"

\* C23: when run ends before it signalled readiness, start raises the
\* exception of run (RuntimeError when run ended without one) instead of
\* returning the task, and the connection is never put in the connection
\* map of the integration.
C23_FailedStartNotRegistered ==
    /\ ( cnRun = "done" /\ ~ cnWaiter )
          => /\ cnStart \in { "waiting", "raised" }
             /\ cnStart = "raised"
                   => cnStartExc = IF cnRaised = "returned" THEN "RuntimeError" ELSE cnRaised
             /\ cnSub # "True"
    /\ ~ cnWaiter => ~ cnRegistered
    /\ cnStart = "raised" => ( cnRun = "done" /\ ~ cnWaiter )

\* the first create_connection failed and subscribe returned False
C23_Witness ==
    /\ cnStart = "raised"
    /\ cnStartExc = "ClientError"
    /\ cnSub = "False"
    /\ ~ cnRegistered

\* C24: with a subscription of another web_id_type build_url raises
\* ValueError before create_connection is called and before readiness is
\* signalled, start raises it and subscribe returns False.
C24_MixedWebIdType ==
    ( cnKind = "piweb" /\ cnBad )
        => /\ cnOpens = 0
           /\ ~ cnStarted
           /\ ~ cnWaiter
           /\ cnRun = "done" => cnRaised = "ValueError"
           /\ cnStart \notin { "idle", "waiting" }
                 => ( cnStart = "raised" /\ cnStartExc = "ValueError" )
           /\ cnSub # "pending" => cnSub = "False"

C24_Witness ==
    /\ cnKind = "piweb"
    /\ cnBad
    /\ cnRaised = "ValueError"
    /\ cnSub = "False"


\* C30: a PIWebIntegration never has more than max_connections live
\* connections in its connection map.
C30_ConnectionsBounded ==
    kind = "piweb"
        => Cardinality({ c \in registered : task[c] = "running" }) <= max_connections


\* ---- concurrent get_user calls on one directory client ---------------------

\* get_user enters _get_connection, which reads self._controllers[0] and
\* then waits for the semaphore
GetConnection(r) ==
    /\ guPc[r] = "idle"
    /\ guCalls < MaxUserCalls
    /\ guCalls' = guCalls + 1
    /\ guUrl' = [ guUrl EXCEPT ![r] = guControllers[1] ]
    /\ guBase' = [ guBase EXCEPT ![r] = 0 ]
    /\ guPc' = [ guPc EXCEPT ![r] = "lock" ]
    /\ UNCHANGED << guControllers, guBases, guPermits, notGu >>

\* async with self._lock: the semaphore is taken and client.connect runs in
\* a worker thread
GetConnectionAcquired(r) ==
    /\ guPc[r] = "lock"
    /\ guPermits > 0
    /\ guPermits' = guPermits - 1
    /\ guPc' = [ guPc EXCEPT ![r] = "connect" ]
    /\ UNCHANGED << guControllers, guBases, guUrl, guBase, guCalls, notGu >>

\* the LDAPError of a get_user reaches authenticate, which calls rotate
\* before its next attempt
RotateClient ==
    /\ guControllers' = Rotate(guControllers)
    /\ guBases' = Rotate(guBases)

\* client.connect is over: the connection is yielded and get_user reads
\* self._bases[0] for its search, or connect raised LDAPError
GetUserConnected(r, ok) ==
    /\ guPc[r] = "connect"
    /\ IF ok
       THEN /\ guBase' = [ guBase EXCEPT ![r] = guBases[1] ]
            /\ guPc' = [ guPc EXCEPT ![r] = "search" ]
            /\ UNCHANGED << guControllers, guBases, guPermits >>
       ELSE /\ guPermits' = guPermits + 1
            /\ guPc' = [ guPc EXCEPT ![r] = "idle" ]
            /\ RotateClient
            /\ UNCHANGED guBase
    /\ UNCHANGED << guUrl, guCalls, notGu >>

\* the search is over: the connection is released and get_user returns the
\* user, or the search raised LDAPError
GetUserSearched(r, ok) ==
    /\ guPc[r] = "search"
    /\ guPermits' = guPermits + 1
    /\ guPc' = [ guPc EXCEPT ![r] = "idle" ]
    /\ IF ok THEN UNCHANGED << guControllers, guBases >> ELSE RotateClient
    /\ UNCHANGED << guUrl, guBase, guCalls, notGu >>

InitGu == IntegrationIdle /\ AuthIdle /\ DialIdle /\ TelIdle /\ TxIdle /\ FnIdle /\ CnIdle /\ GuStarted(1..MaxControllers, 1..MaxConnPool) /\ PbIdle /\ CaIdle

NextGu ==
    \/ \E r \in Requests : GetConnection(r)
    \/ \E r \in Requests : GetConnectionAcquired(r)
    \/ \E r \in Requests, ok \in BOOLEAN : GetUserConnected(r, ok)
    \/ \E r \in Requests, ok \in BOOLEAN : GetUserSearched(r, ok)

SpecGu == InitGu /\ [][NextGu]_vars

\* C29: get_user searches with the base of the controller its connection
\* was opened to, also when another request rotates the client while this
\* one waits for the semaphore or for the connection; and the controllers
\* and the bases stay paired position by position.
C29_BaseOfConnectedController ==
    /\ \A r \in Requests : guPc[r] = "search" => guBase[r] = BaseOf(guUrl[r])
    /\ \A i \in 1..Len(guControllers) : guBases[i] = BaseOf(guControllers[i])

\* the part of C29 that holds: rotate keeps the two deques paired
C29_Paired ==
    /\ Len(guBases) = Len(guControllers)
    /\ \A i \in 1..Len(guControllers) : guBases[i] = BaseOf(guControllers[i])

\* the done callbacks have run and no cancelled task is still finishing:
\* every connection of the map is running
Settled == ~ CallbackDue /\ \A c \in registered : task[c] = "running"

\* C28: when the task of a connection of the map ends on its own,
\* the connection is removed and the subscriptions it carried are in no
\* connection of the map until a subscribe names them, also when the task
\* ended during an unsubscribe or a consolidation pass that had selected
\* the connection.
C28_LostStayOut == Settled => lost \cap Subscriptions = {}


\* the connections a Traxx unsubscribe of S has to cancel: the running
\* connections of the map whose subscription is in S
TraxxTargets(S) == { c \in registered : task[c] = "running" /\ cSubs[c] # {} /\ cSubs[c] \subseteq S }

\* the step of a TraxxIntegration.unsubscribe cancels exactly its targets
C40_CancelsTargets ==
    [][ \A p \in Procs :
          ( kind = "traxx" /\ Enters(p, "unsubscribe") )
             => \A c \in Ids : ( task[c] = "running" /\ task'[c] = "cancelling" )
                                  <=> c \in TraxxTargets(crit'.arg) ]_vars

\* C40: TraxxIntegration.unsubscribe returns True whenever it completes
\* without error, whether or not a subscription given was held, after
\* cancelling exactly the connections whose subscription is in the set
\* given and leaving every other connection running.
C40_ReturnsTrue ==
    [][ \A p \in Procs :
          ( kind = "traxx" /\ Enters(p, "unsubscribe") )
             => /\ ret'[p] = "True"
                /\ \A c \in Ids : ( task[c] = "running" /\ task'[c] = "cancelling" )
                                     <=> c \in TraxxTargets(crit'.arg) ]_vars


\* no subscribe, unsubscribe or consolidation pass is in progress, every
\* cancelled task has finished and every done callback has run
Quiescent ==
    /\ lock = NoProc
    /\ \A p \in Procs : pc[p] = "idle"
    /\ consPc \in { "wait", "none", "cancelled" }
    /\ \A c \in Ids : task[c] \notin { "pending", "cancelling" }
    /\ ~ CallbackDue

\* the most subscriptions the integration may hold
MaxCapacity == IF kind = "piweb" THEN max_connections * MaxSubscriptions ELSE MaxSubscriptions

\* C39: in every quiescent state each held subscription is carried by
\* exactly one connection of the map, a PI Web connection of the map carries
\* between 1 and max_subscriptions subscriptions, a Traxx connection exactly
\* one, and the subscriptions held are no more than the maximum capacity.
C39_QuiescentShape ==
    Quiescent
        => /\ \A x \in Subscriptions :
                 Cardinality({ c \in registered : x \in cSubs[c] }) = 1
           /\ \A c \in registered :
                 /\ Cardinality(cSubs[c]) >= 1
                 /\ Cardinality(cSubs[c]) <= IF kind = "piweb" THEN MaxSubscriptions ELSE 1
           /\ Cardinality(Subscriptions) <= MaxCapacity


\* the newest timestamp of a batch that is not empty
Newest(items) ==
    CHOOSE t \in ToSet(items) : \A u \in ToSet(items) : u <= t

\* C32: the first poll that returns valid items publishes nothing and sets
\* the watermark to the newest timestamp of the batch; every later batch
\* publishes exactly its items later than the watermark and then advances
\* the watermark to the newest timestamp published, so that the watermark
\* never decreases.
C32_Watermark ==
    [][ \A resp \in Responses \ { << >> } :
          PollOk(resp, TRUE)
            => IF txLastTs = 0
               THEN /\ txEmitted' = txEmitted
                    /\ txLastTs' = Newest(resp)
               ELSE LET published == Filter(resp, txLastTs)
                    IN /\ txEmitted' = txEmitted \o published
                       /\ published # << >> => txLastTs' = Newest(published)
                       /\ txLastTs' >= txLastTs ]_vars

\* the part of C32 that holds: the first batch publishes nothing, a later
\* one publishes exactly its items later than the watermark, in the order
\* of the rows, and the watermark never decreases
C32_PublishesLater ==
    [][ \A resp \in Responses \ { << >> } :
          PollOk(resp, TRUE)
            => /\ txEmitted' = IF txLastTs = 0 THEN txEmitted
                               ELSE txEmitted \o Filter(resp, txLastTs)
               /\ txLastTs' >= txLastTs ]_vars


\* C33: whenever run of a PIWebConnection ends after its websocket was
\* opened, by cancellation, by an exception raised while a frame is
\* processed or by the reconnect attempts running out, the websocket is
\* closed and the readiness event is cleared.
C33_ClosedOnExit ==
    ( cnKind = "piweb" /\ cnRun = "done" /\ cnWs # "none" )
        => ( cnWs = "closed" /\ ~ cnStarted )

\* run was cancelled while it read the frames of a websocket it had reopened
C33_Witness ==
    /\ cnKind = "piweb"
    /\ cnRun = "done"
    /\ cnRaised = "CancelledError"
    /\ cnOpens >= 2
    /\ cnFailures = 0
    /\ cnWs = "closed"
    /\ ~ cnStarted

\* run ended on an exception raised while a frame was processed
C33_FrameError ==
    cnKind = "piweb" /\ cnRun = "done" /\ cnRaised = "Error" /\ cnWs = "closed"

\* run ended when the reconnect attempts ran out
C33_Exhausted ==
    cnKind = "piweb" /\ cnRun = "done" /\ cnStreak = cnMax /\ cnMax > 0 /\ cnWs = "closed"


\* ------------- connections publishing on the data queue of the integration

\* the subscriptions of a connection: its index (PI Web) or its only
\* subscription (Traxx)
Own(c) ==
    IF pbKind = "piweb"
    THEN IF c = "a" THEN { 1, 2 } ELSE { 3 }
    ELSE IF c = "a" THEN { 1 } ELSE { 3 }

\* what a connection can receive: a PI Web frame fails validation, fails to
\* parse otherwise, or parses into items of any WebId; a Traxx poll gives
\* rows that fail validation, no row later than the watermark, or one message
IdLists == SeqsUpTo(1..3, MaxItems)

Frames(c) ==
    IF pbKind = "piweb"
    THEN { [ parse |-> e, items |-> << >> ] : e \in { "ValidationError", "Exception" } }
         \cup { [ parse |-> "ok", items |-> ids ] : ids \in IdLists }
    ELSE { [ parse |-> "ValidationError", items |-> << >> ] }
         \cup { [ parse |-> "ok", items |-> ids ] :
                    ids \in { << >> } \cup { << x >> : x \in Own(c) } }

\* the items of a frame, numbered in the order they were received
Numbered(ids, from) ==
    [ i \in 1..Len(ids) |-> [ sub |-> ids[i], n |-> from + i ] ]

\* a handler that lets everything but a ValidationError through
CaughtIfValidation(parse) == parse = "ValidationError"
\* except ValidationError / except Exception around parse_raw: the frame is
\* logged and dropped
Caught(parse) == parse \in { "ValidationError", "Exception" }

\* a connection receives a frame (a poll result): one that does not parse
\* is dropped, the items of one that parses are published one by one
PbFrame(c, f) ==
    /\ pbPc[c] = "recv"
    /\ pbFrames < MaxFrames
    /\ pbFrames' = pbFrames + 1
    /\ IF f.parse = "ok"
       THEN /\ pbItems' = [ pbItems EXCEPT ![c] = Numbered(f.items, pbRecv[c]) ]
            /\ pbRecv' = [ pbRecv EXCEPT ![c] = @ + Len(f.items) ]
            /\ pbPc' = [ pbPc EXCEPT ![c] = IF f.items = << >> THEN "recv" ELSE "item" ]
            /\ UNCHANGED pbDropAt
       ELSE /\ pbPc' = [ pbPc EXCEPT ![c] = IF Caught(f.parse) THEN "recv" ELSE "ended" ]
            /\ pbDropAt' = [ pbDropAt EXCEPT ![c] = pbTotal[c] ]
            /\ UNCHANGED << pbItems, pbRecv >>
    /\ UNCHANGED << pbKind, pbMax, pbQueue, pbTotal, pbSeen, notPb >>

\* assert web_id in self._index
InIndex(c, web_id) == web_id \in Own(c)

\* the next item of the frame: its WebId is looked up in the index and put
\* is called with the message; a WebId that is not in the index ends run
PbItem(c) ==
    /\ pbPc[c] = "item"
    /\ IF InIndex(c, Head(pbItems[c]).sub)
       THEN pbPc' = [ pbPc EXCEPT ![c] = "put" ] /\ UNCHANGED pbItems
       ELSE pbPc' = [ pbPc EXCEPT ![c] = "ended" ] /\ pbItems' = [ pbItems EXCEPT ![c] = << >> ]
    /\ UNCHANGED << pbKind, pbMax, pbQueue, pbRecv, pbTotal, pbSeen, pbFrames, pbDropAt, notPb >>

\* the queue of the integration: asyncio.Queue(maxsize=max_buffered_messages)
Maxsize == pbMax

\* a queue that is never full
NeverFull(queue) == FALSE
\* Queue.full
Full(queue) == Len(queue) >= Maxsize

\* await self._data.put(message) goes through when the queue is not full,
\* then the counter is incremented and the loop goes on to the next item
PbPut(c) ==
    /\ pbPc[c] = "put"
    /\ ~ Full(pbQueue)
    /\ pbQueue' = Append(pbQueue, [ conn |-> c, sub |-> Head(pbItems[c]).sub,
                                    n |-> Head(pbItems[c]).n ])
    /\ pbTotal' = [ pbTotal EXCEPT ![c] = @ + 1 ]
    /\ pbItems' = [ pbItems EXCEPT ![c] = Tail(@) ]
    /\ pbPc' = [ pbPc EXCEPT ![c] = IF Tail(pbItems[c]) = << >> THEN "recv" ELSE "item" ]
    /\ UNCHANGED << pbKind, pbMax, pbRecv, pbSeen, pbFrames, pbDropAt, notPb >>

\* the consumer of the integration takes the oldest message off the queue
PbGet ==
    /\ pbQueue # << >>
    /\ pbSeen' = [ pbSeen EXCEPT ![Head(pbQueue).conn] = Head(pbQueue).n ]
    /\ pbQueue' = Tail(pbQueue)
    /\ UNCHANGED << pbKind, pbMax, pbPc, pbItems, pbRecv, pbTotal, pbFrames, pbDropAt, notPb >>

InitPb == IntegrationIdle /\ AuthIdle /\ DialIdle /\ TelIdle /\ TxIdle /\ FnIdle /\ CnIdle /\ GuIdle /\ PbStarted({ "piweb", "traxx" }, 1..MaxBuffered) /\ CaIdle

NextPb ==
    \/ \E c \in Publishers : \E f \in Frames(c) : PbFrame(c, f)
    \/ \E c \in Publishers : PbItem(c)
    \/ \E c \in Publishers : PbPut(c)
    \/ PbGet

SpecPb == InitPb /\ [][NextPb]_vars

\* the numbers of the messages of connection c that are on the queue, oldest
\* first
RECURSIVE NumbersOf(_, _)
NumbersOf(queue, c) ==
    IF queue = << >> THEN << >>
    ELSE IF Head(queue).conn = c
         THEN << Head(queue).n >> \o NumbersOf(Tail(queue), c)
         ELSE NumbersOf(Tail(queue), c)

\* the numbers from + 1, ..., to in ascending order
Run(from, to) == [ i \in 1..(to - from) |-> from + i ]

\* C34: a PI Web frame that fails validation or parsing publishes nothing
\* and does not end the connection, which goes on to read and publish the
\* frames that follow; every message published by a connection carries a
\* subscription of that connection; and the counter of published messages
\* goes up by exactly one for each message published.
C34_BadFrameDropped ==
    /\ [] ( \A i \in 1..Len(pbQueue) : pbQueue[i].sub \in Own(pbQueue[i].conn) )
    /\ [] ( \A c \in Publishers :
              pbTotal[c] = pbSeen[c] + Len(NumbersOf(pbQueue, c)) )
    /\ [][ \A c \in Publishers :
             \A f \in Frames(c) :
                ( PbFrame(c, f) /\ f.parse # "ok" )
                   => /\ pbQueue' = pbQueue
                      /\ pbTotal' = pbTotal
                      /\ pbPc'[c] = "recv" ]_vars

\* a PI Web connection dropped a frame and published a message after it
C34_Witness ==
    /\ pbKind = "piweb"
    /\ pbDropAt["a"] >= 0
    /\ pbTotal["a"] > pbDropAt["a"]
    /\ pbPc["a"] = "recv"

\* C35: the messages of one connection are on the queue in the order in
\* which the connection received them (frame after frame, item after item);
\* a put that finds the queue full suspends and its message is neither lost
\* nor put out of order; the queue never holds more than
\* max_buffered_messages messages.
C35_OrderAndBound ==
    /\ Len(pbQueue) <= pbMax
    /\ \A c \in Publishers :
          /\ NumbersOf(pbQueue, c) = Run(pbSeen[c], pbTotal[c])
          /\ pbPc[c] \in { "item", "put" } => Head(pbItems[c]).n = pbTotal[c] + 1
          /\ pbPc[c] = "recv" => pbTotal[c] = pbRecv[c]

\* a connection is suspended in put on a full queue that holds a message of
\* each connection, after messages were taken off the queue
C35_Witness ==
    /\ Len(pbQueue) = pbMax
    /\ pbPc["a"] = "put"
    /\ pbSeen["a"] > 0
    /\ NumbersOf(pbQueue, "a") # << >>
    /\ NumbersOf(pbQueue, "b") # << >>


\* the parsers of the cookie file
Parsers == { "json.loads", "toml.loads", "yaml.safe_load" }

\* C36 as stated: a FileCookieAuthFlow is constructed from an existing file
\* with extension .json, .toml, .yml or .yaml, a missing file or any other
\* extension is rejected at construction, and the file of every accepted
\* extension is parsed into cookies on each request.
C36_YamlAccepted ==
    ( fnIn.fn = "FileCookieAuthFlow" /\ fnDone )
        => /\ fnOut.raised = "none"
                <=> ( fnIn.exists
                      /\ Lower(fnIn.suffix) \in { ".json", ".toml", ".yml", ".yaml" } )
           /\ fnOut.raised = "none" => fnOut.parser \in Parsers

\* C36: a FileCookieAuthFlow is constructed from an existing file whose
\* extension is .json, .toml or .yml in any case of the letters; a missing
\* file is rejected with FileNotFoundError and any other extension, .yaml
\* included, with ValueError; the file of every accepted extension is
\* parsed into cookies on each request.
C36_ThreeExtensions ==
    ( fnIn.fn = "FileCookieAuthFlow" /\ fnDone )
        => /\ fnOut.raised = "none"
                <=> ( fnIn.exists /\ Lower(fnIn.suffix) \in { ".json", ".toml", ".yml" } )
           /\ fnOut.raised = "FileNotFoundError" <=> ~ fnIn.exists
           /\ fnOut.raised = "none" => fnOut.parser \in Parsers

\* an existing .yaml file was rejected
C36_Witness ==
    /\ fnIn.fn = "FileCookieAuthFlow"
    /\ fnDone
    /\ fnIn.exists
    /\ fnIn.suffix = ".yaml"
    /\ fnOut.raised = "ValueError"


\* ---- concurrent authenticate calls of the backend on one client ------------

\* get_user up to its first suspension: _get_connection reads
\* self._controllers[0] and waits for the semaphore
CaGetUser(r, controllers) ==
    /\ caUrl' = [ caUrl EXCEPT ![r] = controllers[1] ]
    /\ caTried' = [ caTried EXCEPT ![r] = @ \cup { controllers[1] } ]
    /\ caPc' = [ caPc EXCEPT ![r] = "lock" ]

\* authenticate with a valid bearer token: the first iteration of the loop
CaAuthenticate(r) ==
    /\ caPc[r] = "idle"
    /\ CaGetUser(r, caControllers)
    /\ UNCHANGED << caControllers, caBad, caPermits, caAttempts, notCa >>

\* async with self._lock: the semaphore is taken, client.connect runs
CaAcquired(r) ==
    /\ caPc[r] = "lock"
    /\ caPermits > 0
    /\ caPermits' = caPermits - 1
    /\ caPc' = [ caPc EXCEPT ![r] = "connect" ]
    /\ UNCHANGED << caControllers, caBad, caUrl, caAttempts, caTried, notCa >>

\* the controller answers: get_user returns the user and so does authenticate
CaReturns(r) ==
    /\ caPc[r] = "connect"
    /\ caUrl[r] \notin caBad
    /\ caPermits' = caPermits + 1
    /\ caPc' = [ caPc EXCEPT ![r] = "returned" ]
    /\ UNCHANGED << caControllers, caBad, caUrl, caAttempts, caTried, notCa >>

\* for _ in range(len(self.client)): another iteration follows
AttemptsLeft(attempts, controllers) == attempts < Len(controllers)

\* the controller raises LDAPError: authenticate rotates the client and
\* calls get_user again, or raises AuthenticationError when its
\* len(self.client) iterations are used up
CaRotates(r) ==
    /\ caPc[r] = "connect"
    /\ caUrl[r] \in caBad
    /\ caPermits' = caPermits + 1
    /\ caControllers' = Rotate(caControllers)
    /\ caAttempts' = [ caAttempts EXCEPT ![r] = @ + 1 ]
    /\ IF AttemptsLeft(caAttempts[r] + 1, caControllers)
       THEN CaGetUser(r, Rotate(caControllers))
       ELSE /\ caPc' = [ caPc EXCEPT ![r] = "raised" ]
            /\ UNCHANGED << caUrl, caTried >>
    /\ UNCHANGED << caBad, notCa >>

InitCa == IntegrationIdle /\ AuthIdle /\ DialIdle /\ TelIdle /\ TxIdle /\ FnIdle /\ CnIdle /\ GuIdle /\ PbIdle /\ CaStarted(1..MaxControllers, 1..MaxConnPool)

NextCa ==
    \/ \E r \in Requests : CaAuthenticate(r)
    \/ \E r \in Requests : CaAcquired(r)
    \/ \E r \in Requests : CaReturns(r)
    \/ \E r \in Requests : CaRotates(r)

SpecCa == InitCa /\ [][NextCa]_vars

\* C37: when several authenticate calls share one client and run at the
\* same time while some controller raises LDAP errors, each call succeeds if
\* any controller of the list is healthy: the rotations of one call never
\* make another call use up its len(client) attempts on failed controllers
\* without having tried the healthy one.
C37_HealthyIsTried ==
    \A r \in Requests :
        caPc[r] = "raised" => ToSet(caControllers) \subseteq caBad

\* the part of C37 that holds: a call that runs alone fails only when every
\* controller is out of order, and has then tried each of them
C37_AloneSucceeds ==
    \A r \in Requests :
        ( caPc[r] = "raised" /\ \A o \in Requests \ { r } : caTried[o] = {} )
            => ( ToSet(caControllers) \subseteq caBad /\ caTried[r] = ToSet(caControllers) )


\* the consolidation task waits for an event that is not set while nothing
\* else is in progress: without another subscribe or unsubscribe the
\* integration stays as it is
AtRest == Quiescent /\ ~ closed /\ consPc = "wait" /\ ~ event

\* C38: whenever a subscribe or unsubscribe leaves a PIWebIntegration with
\* more connections under capacity than the optimal count, the integration
\* reaches the optimal count without another subscribe or unsubscribe, a
\* pass that failed to start its connections being tried again: a state in
\* which nothing more happens without a call has the optimal count.
C38_OptimalAtRest ==
    ( kind = "piweb" /\ AtRest )
        => Cardinality(HasCapacity) = Optimal(HasCapacity)

====
